---- MODULE Spec2Model ----
(***************************************************************************)
(* Request handling of the AdobeWork backend: every HTTP endpoint of       *)
(* app/api/v1 (pdf.py, image.py, ocr.py) as "validate upload -> save to    *)
(* the upload directory -> call the service function -> build the          *)
(* response -> clean up", over a shared file system (upload directory,     *)
(* download directory, /tmp) on which the periodic sweep cleanup_old_files *)
(* also works.  A worker process handles one request from start to end.    *)
(***************************************************************************)
EXTENDS Integers, Sequences, FiniteSets, TLC

\* ------------------------------------------------------------------ bounds
MaxTicks == 1          \* clock ticks of a behaviour
TickSeconds == 3601    \* seconds one tick advances the clock
MaxFiles == 2          \* longest list of uploads in one request
MaxPages == 1          \* pages of an uploaded PDF
MaxOutSize == 2        \* largest size of a written output file
UploadSize == 3        \* size of an uploaded file
MaxDocPages == 11      \* pages of a PDF given to a service function on its own
MaxLines == 2          \* text lines of a page given to PDFEditor.replace_text
MaxSpans == 2          \* spans of a text line
MaxOpPages == 3        \* pages of a PDF given to merge_pdfs, split_pdf, rotate_pdf
MaxAnnotations == 2    \* editor calls of one edit-batch or structure block

\* ------------------------------------------------------- program constants
AnalysisLimit == 10    \* analyze_pdf_type: range(min(10, page_count))
max_age == 3600        \* cleanup_old_files: age limit in seconds

Workers == {1, 2}      \* worker processes (os.getpid())

\* Optional[T]: None is <<>>, a value v is <<v>>
None == <<>>
Some(v) == <<v>>
IsNone(o) == o = <<>>
\* Python truthiness of an Optional[int]: None and 0 are falsy
Truthy(o) == o /= <<>> /\ o[1] /= 0
\* Python truthiness of an Optional[str]: None and "" are falsy
TruthyStr(o) == o /= <<>> /\ o[1] /= ""

\* ---------------------------------------------------------------- maps
Put(m, k, v) == [x \in (DOMAIN m) \cup {k} |-> IF x = k THEN v ELSE m[x]]
Del(m, k) == [x \in (DOMAIN m) \ {k} |-> m[x]]
EmptyMap == [x \in {} |-> 0]

\* ------------------------------------------------------------ file names
\* An uploaded file name, split as pathlib does: Path(name).stem / .suffix.
\* The name "" stands for a missing filename.
FileName(stem, suffix) == [stem |-> stem, suffix |-> suffix]
NoName == FileName("", "")
FileNames ==
  { NoName,
    FileName("doc", ".pdf"), FileName("doc", ".PDF"),
    FileName("doc", ".png"), FileName("doc", ".JPG"),
    FileName("doc", ".docx"), FileName("doc", ".xlsx"),
    FileName("doc", ".pptx") }

\* str.lower() on the suffixes that occur
Lower(s) ==
  CASE s = ".PDF" -> ".pdf"
    [] s = ".JPG" -> ".jpg"
    [] OTHER -> s

\* the whole file name is falsy exactly when it is empty
HasFilename(f) == f.stem /= "" \/ f.suffix /= ""

get_file_extension(f) == Lower(f.suffix)

ImageExtensions == {".png", ".jpg", ".jpeg", ".webp", ".gif", ".bmp", ".tiff"}

\* validate_pdf_file: TRUE when no HTTPException(400) is raised
validate_pdf_file(f) ==
  /\ HasFilename(f)
  /\ get_file_extension(f) = ".pdf"

validate_image_file(f) ==
  /\ HasFilename(f)
  /\ get_file_extension(f) \in ImageExtensions

validate_document_file(f, allowed_extensions) ==
  /\ HasFilename(f)
  /\ get_file_extension(f) \in allowed_extensions

\* ------------------------------------------------------------- endpoints
PdfEndpoints ==
  { "/pdf/to-word", "/pdf/to-excel", "/pdf/to-ppt", "/pdf/from-word",
    "/pdf/from-excel", "/pdf/from-ppt", "/pdf/from-images", "/pdf/merge",
    "/pdf/split", "/pdf/compress", "/pdf/protect", "/pdf/unlock",
    "/pdf/rotate", "/pdf/watermark", "/pdf/page-numbers", "/pdf/reorder",
    "/pdf/to-pdfa", "/pdf/info", "/pdf/structure", "/pdf/extract-text",
    "/pdf/add-text", "/pdf/replace-text", "/pdf/add-annotation",
    "/pdf/add-image", "/pdf/redact", "/pdf/extract-images",
    "/pdf/edit-batch" }

ImageEndpoints ==
  { "/image/remove-bg", "/image/resize", "/image/crop", "/image/rotate",
    "/image/compress", "/image/convert", "/image/flip", "/image/adjust",
    "/image/blur", "/image/sharpen", "/image/passport-photo",
    "/image/passport-photo-sheet", "/image/info" }

OcrEndpoints ==
  { "/ocr/image", "/ocr/pdf", "/ocr/image-to-pdf", "/ocr/pdf-to-searchable",
    "/ocr/languages" }

Endpoints == PdfEndpoints \cup ImageEndpoints \cup OcrEndpoints

\* endpoints whose handler takes List[UploadFile], two UploadFile, or none
ListUpload == {"/pdf/from-images", "/pdf/merge"}
TwoUploads == {"/pdf/add-image"}
NoUpload == {"/ocr/languages"}

\* what the handler returns on success:
\*   "file"  FileResponseModel built after Path(output_path).stat()
\*   "sized" dict whose file_size is the size the service returned
\*   "multi" dict with a list of files
\*   "json"  dict / OCRResponse without any output file
Returns(ep) ==
  CASE ep \in {"/pdf/compress", "/image/compress"} -> "sized"
    [] ep \in {"/pdf/split", "/pdf/extract-images"} -> "multi"
    [] ep \in {"/pdf/info", "/pdf/structure", "/pdf/extract-text",
               "/image/info", "/ocr/image", "/ocr/pdf", "/ocr/languages"} -> "json"
    [] OTHER -> "file"

\* handlers that call validate_pdf_file(file) / validate_image_file(file) /
\* validate_document_file(file, [...]) on their first upload
ValidatesPdf == (PdfEndpoints \ {"/pdf/from-word", "/pdf/from-excel",
                                  "/pdf/from-ppt", "/pdf/from-images", "/pdf/merge"})
                \cup {"/ocr/pdf", "/ocr/pdf-to-searchable"}
ValidatesImage == ImageEndpoints \cup {"/ocr/image", "/ocr/image-to-pdf"}
DocumentExtensions(ep) ==
  CASE ep = "/pdf/from-word" -> {".docx", ".doc"}
    [] ep = "/pdf/from-excel" -> {".xlsx", ".xls"}
    [] ep = "/pdf/from-ppt" -> {".pptx", ".ppt"}
    [] OTHER -> {}

\* The file validation the handler of ep runs before anything is saved:
\* TRUE when none of its validate_* calls raises HTTPException(400).
\* /pdf/merge validates every file, /pdf/add-image only `file` (not `image`),
\* /pdf/from-images calls no validate_* function at all.
FilesAccepted(ep, files) ==
  CASE ep \in ValidatesPdf -> validate_pdf_file(files[1])
    [] ep \in ValidatesImage -> validate_image_file(files[1])
    [] ep \in {"/pdf/from-word", "/pdf/from-excel", "/pdf/from-ppt"} ->
         validate_document_file(files[1], DocumentExtensions(ep))
    [] ep = "/pdf/merge" -> \A i \in 1..Len(files) : validate_pdf_file(files[i])
    [] OTHER -> TRUE

\* ------------------------------------------------------ form parameters
NoParams == [none |-> 0]

Params(ep) ==
  CASE ep = "/pdf/to-word" ->
         [mode : {"auto", "hybrid", "image", "text", "ocr", "fast"}]
    [] ep = "/pdf/rotate" -> [angle : {0, 45, 90, 180, 270}]
    [] ep = "/pdf/split" ->
         [mode : {"all", "range", "extract"},
          start_page : {None, Some(1)},
          end_page : {None, Some(1)},
          pages : {None, Some("1")}]
    [] ep = "/pdf/watermark" ->
         [font_size : {7, 48, 201}, opacity : {5, 30}, rotation : {45, 361}]
    [] ep = "/pdf/page-numbers" ->
         [start_number : {0, 1}, font_size : {7, 12, 37}]
    [] ep = "/pdf/edit-batch" -> [annotations : {"[]", "{not json"}]
    [] ep = "/pdf/add-annotation" ->
         [annotation_type : {"highlight", "note", "stamp"},
          rect : {None, Some("1,2,3,4")},
          center : {None}, radius : {None},
          point : {None, Some("1,2")}, text : {Some("hi")},
          start : {None}, end : {None}]
    [] ep = "/image/resize" ->
         [width : {None, Some(100)}, height : {None, Some(100)},
          scale : {None, Some(2)},
          mode : {"fit", "fill", "exact", "scale"}]
    [] ep = "/image/crop" ->
         [x : {-1, 0}, y : {0}, width : {0, 10}, height : {10}]
    [] ep = "/image/compress" -> [quality : {0, 1, 100, 101}]
    [] ep = "/image/flip" -> [direction : {"horizontal", "vertical", "diagonal"}]
    [] ep = "/image/adjust" ->
         [brightness : {None, Some(1)}, contrast : {None, Some(1)},
          saturation : {None, Some(1)}]
    [] OTHER -> {NoParams}
\* the parameter checks without the angle check of /pdf/rotate
ParamsAcceptedAnyAngle(ep, files, p) ==
  CASE ep = "/pdf/merge" -> ~(Len(files) < 2)
    [] ep = "/image/resize" ->
         ~(~Truthy(p.width) /\ ~Truthy(p.height) /\ ~Truthy(p.scale))
    [] ep = "/image/compress" -> ~(p.quality < 1 \/ p.quality > 100)
    [] ep = "/image/flip" -> p.direction \in {"horizontal", "vertical"}
    [] OTHER -> TRUE

\* The parameter checks the handler of ep makes itself before it saves the
\* upload: TRUE when none raises HTTPException(400).
ParamsAccepted(ep, files, p) ==
  CASE ep = "/pdf/merge" -> ~(Len(files) < 2)
    [] ep = "/pdf/rotate" -> p.angle \in {90, 180, 270}
    [] ep = "/image/resize" ->
         ~(~Truthy(p.width) /\ ~Truthy(p.height) /\ ~Truthy(p.scale))
    [] ep = "/image/compress" -> ~(p.quality < 1 \/ p.quality > 100)
    [] ep = "/image/flip" -> p.direction \in {"horizontal", "vertical"}
    [] OTHER -> TRUE

\* Field(...) ranges declared by the request schemas (opacity in hundredths)
PDFWatermarkRequest(p) ==
  /\ p.font_size >= 8 /\ p.font_size =< 200
  /\ p.opacity >= 10 /\ p.opacity =< 100
  /\ p.rotation >= 0 /\ p.rotation =< 360
PageNumberRequest(p) ==
  /\ p.start_number >= 1
  /\ p.font_size >= 8 /\ p.font_size =< 36
ImageCropRequest(p) ==
  /\ p.x >= 0 /\ p.y >= 0 /\ p.width >= 1 /\ p.height >= 1

\* ------------------------------------------------------------ file paths
\* A path is a directory ("uploads" = settings.UPLOAD_DIR, "downloads" =
\* settings.DOWNLOAD_DIR, "tmp" = /tmp), a subdirectory and a file name;
\* a file name is base_n1_n2 + ext.
Name(base, n1, n2, ext) == [base |-> base, n1 |-> n1, n2 |-> n2, ext |-> ext]
Path(dir, sub, name) == [dir |-> dir, sub |-> sub, name |-> name]

\* uuid.uuid4().hex[:8] of the k-th name request w generates: the values
\* never repeat
uuid4(w, k) == 100 * w + k

\* generate_filename(original_name, extension) at time ts with uuid4 value uid:
\* f"{stem}_{timestamp}_{unique_id}{extension or suffix}"
generate_filename(original_name, extension, ts, uid) ==
  Name(original_name.stem, ts, uid,
       IF TruthyStr(extension) THEN extension[1] ELSE original_name.suffix)

\* `file.filename or default`
OrDefault(f, default) == IF HasFilename(f) THEN f ELSE FileName(default, "")

\* subdirectory of the upload directory the handler saves into
Subdir(ep) ==
  CASE ep \in {"/pdf/to-word", "/pdf/to-excel", "/pdf/to-ppt"} -> "pdf"
    [] ep = "/pdf/from-word" -> "word"
    [] ep = "/pdf/from-excel" -> "excel"
    [] ep = "/pdf/from-ppt" -> "ppt"
    [] ep = "/pdf/from-images" -> "images"
    [] ep = "/pdf/merge" -> "merge"
    [] ep = "/pdf/split" -> "split"
    [] ep \in {"/pdf/compress", "/image/compress"} -> "compress"
    [] ep = "/pdf/protect" -> "protect"
    [] ep = "/pdf/unlock" -> "unlock"
    [] ep \in {"/pdf/rotate", "/image/rotate"} -> "rotate"
    [] ep = "/pdf/watermark" -> "watermark"
    [] ep = "/pdf/page-numbers" -> "pagenumbers"
    [] ep = "/pdf/reorder" -> "reorder"
    [] ep = "/pdf/to-pdfa" -> "pdfa"
    [] ep \in {"/pdf/info", "/image/info"} -> "info"
    [] ep = "/pdf/structure" -> "structure"
    [] ep = "/pdf/extract-text" -> "extract"
    [] ep = "/pdf/add-text" -> "addtext"
    [] ep = "/pdf/replace-text" -> "replace"
    [] ep = "/pdf/add-annotation" -> "annotate"
    [] ep = "/pdf/add-image" -> "addimg"
    [] ep = "/pdf/redact" -> "redact"
    [] ep = "/pdf/extract-images" -> "extract-img"
    [] ep = "/pdf/edit-batch" -> "batch"
    [] ep = "/image/remove-bg" -> "bg-remove"
    [] ep = "/image/resize" -> "resize"
    [] ep = "/image/crop" -> "crop"
    [] ep = "/image/convert" -> "convert"
    [] ep = "/image/flip" -> "flip"
    [] ep = "/image/adjust" -> "adjust"
    [] ep = "/image/blur" -> "blur"
    [] ep = "/image/sharpen" -> "sharpen"
    [] ep = "/image/passport-photo" -> "passport"
    [] ep = "/image/passport-photo-sheet" -> "passport-sheet"
    [] ep = "/ocr/image" -> "ocr"
    [] ep = "/ocr/pdf" -> "ocr-pdf"
    [] ep = "/ocr/image-to-pdf" -> "ocr-to-pdf"
    [] ep = "/ocr/pdf-to-searchable" -> "pdf-searchable"
    [] OTHER -> ""

\* save_upload_file(file, subdir): the path it writes and returns
UploadPath(ep, f, ts, uid) ==
  Path("uploads", <<Subdir(ep)>>,
       generate_filename(OrDefault(f, "file"), None, ts, uid))

\* the output_filename the handler of ep generates for its result
\* (image endpoints taking output_format use the form default "png")
OutputFilename(ep, files, ts, uid) ==
  CASE ep = "/pdf/to-word" ->
         generate_filename(OrDefault(files[1], "document"), Some(".docx"), ts, uid)
    [] ep = "/pdf/to-excel" ->
         generate_filename(OrDefault(files[1], "document"), Some(".xlsx"), ts, uid)
    [] ep = "/pdf/to-ppt" ->
         generate_filename(OrDefault(files[1], "document"), Some(".pptx"), ts, uid)
    [] ep = "/pdf/from-images" ->
         generate_filename(FileName("images", ""), Some(".pdf"), ts, uid)
    [] ep = "/pdf/merge" ->
         generate_filename(FileName("merged", ""), Some(".pdf"), ts, uid)
    [] ep \in {"/image/remove-bg", "/image/convert"} ->
         generate_filename(OrDefault(files[1], "converted"), Some(".png"), ts, uid)
    [] ep \in {"/image/passport-photo", "/image/passport-photo-sheet"} ->
         generate_filename(OrDefault(files[1], "passport"), Some(".jpg"), ts, uid)
    [] ep \in ImageEndpoints \ {"/image/remove-bg", "/image/convert",
                             "/image/passport-photo", "/image/passport-photo-sheet"} ->
         generate_filename(OrDefault(files[1], "image"),
                           Some(IF HasFilename(files[1]) THEN files[1].suffix ELSE ".jpg"),
                           ts, uid)
    [] OTHER ->
         generate_filename(OrDefault(files[1], "document"), Some(".pdf"), ts, uid)

\* f"{settings.DOWNLOAD_DIR}/{output_filename}"
OutputPath(output_filename) == Path("downloads", <<>>, output_filename)
\* f"/downloads/{output_filename}"
FileUrl(output_filename) == [mount |-> "/downloads", name |-> output_filename]

\* a file on disk
File(mtime, size, owner) == [mtime |-> mtime, size |-> size, owner |-> owner]

\* ----------------------------------------------------------------- state
VARIABLES
  cfg,          \* deployment: worker processes, endpoints and file names in use
  now,          \* time.time(), in seconds
  upload_dir,   \* files under settings.UPLOAD_DIR: path -> File
  download_dir, \* files under settings.DOWNLOAD_DIR: path -> File
  tmp_dir,      \* files under /tmp: path -> File
  pc,           \* per worker: position of its request handler
  req,          \* per worker: the request (endpoint, uploads, form parameters)
  input_paths,  \* per worker: paths save_upload_file has returned so far
  out,          \* per worker: output_filename (<<>> before it is generated)
  job,          \* per worker: locals of the running service call
  resp,         \* per worker: the response (status 0: none yet)
  svc,          \* per worker: arguments the service function was called with
  rm_failed,    \* per worker: an os.remove in cleanup_file raised
  ended,        \* per worker: how the handler left its code path
                \*   "invalid"    HTTPException(400) before the first save
                \*   "save error" save_upload_file raised
                \*   "rejected"   HTTPException(400) inside the try block
                \*   "raised"     the service call raised
                \*   "no output"  Path(output_path).stat() raised
                \*   "returned"   the return statement was reached
  sweep,        \* the cleanup_old_files task
  fn            \* a service function called on its own: name, arguments, result

vars == <<cfg, now, upload_dir, download_dir, tmp_dir, pc, req,
          input_paths, out, job, resp, svc, rm_failed, ended, sweep, fn>>

NoRequest == [ep |-> "", files |-> <<>>, p |-> NoParams]
NoResponse == [status |-> 0]
\* locals of a service call that keeps scratch files:
\*   scratch       family of scratch file the converter uses ("" : none)
\*   page, pages   loop index and number of iterations of the converter
\*   current_path, temp_paths   the variables of /image/adjust
\*   foreign       the call read a file another request had written
\*   lost          the call found a file of its own missing
\*   clobbered     the call overwrote or removed a file of another request
Job(conv, scratch, pages) ==
  [conv |-> conv, scratch |-> scratch, page |-> 0, pages |-> pages,
   current_path |-> <<>>, temp_paths |-> <<>>,
   foreign |-> FALSE, lost |-> FALSE, clobbered |-> FALSE]
NoJob == Job("", "", 0)
\* svc[w] is <<>> until the service function is entered, then <<args>>
NotCalled == <<>>

\* cleanup_old_files before it is run:
\*   current_time  time.time() read at the start
\*   todo          files of the walk still to look at
\*   failed        files on which os.remove raised
\*   success       the "success" of the returned dict
NoSweep ==
  [state |-> "idle", current_time |-> 0, todo |-> {}, failed |-> {},
   success |-> FALSE]

\* fn before any service function is called on its own
NoCall == [op |-> ""]

\* an output file that an earlier request left in the download directory
OldOutput == OutputPath(Name("old", 0, 0, ".pdf"))

\* the uploads a request to ep may carry
UploadsOf(ep, names) ==
  CASE ep \in NoUpload -> {<<>>}
    [] ep \in ListUpload -> UNION {[1..n -> names] : n \in 0..MaxFiles}
    [] ep \in TwoUploads -> [1..2 -> names]
    [] OTHER -> [1..1 -> names]

InitFor(deployment) ==
  /\ cfg = deployment
  /\ now = 0
  /\ upload_dir = EmptyMap
  /\ download_dir = Put(EmptyMap, OldOutput, File(0, 1, 0))
  /\ tmp_dir = EmptyMap
  /\ pc = [w \in Workers |-> "idle"]
  /\ req = [w \in Workers |-> NoRequest]
  /\ input_paths = [w \in Workers |-> <<>>]
  /\ out = [w \in Workers |-> <<>>]
  /\ job = [w \in Workers |-> NoJob]
  /\ resp = [w \in Workers |-> NoResponse]
  /\ svc = [w \in Workers |-> NotCalled]
  /\ rm_failed = [w \in Workers |-> FALSE]
  /\ ended = [w \in Workers |-> ""]
  /\ sweep = NoSweep
  /\ fn = NoCall

\* one worker process serving the whole API
Init == InitFor([workers |-> {1}, endpoints |-> Endpoints, names |-> FileNames])

\* ------------------------------------------------------- request handling
\* a request arrives at worker w
Receive(w) ==
  /\ w \in cfg.workers
  /\ pc[w] = "idle"
  /\ \E ep \in cfg.endpoints :
       \E files \in UploadsOf(ep, cfg.names) :
         \E p \in Params(ep) :
           req' = [req EXCEPT ![w] = [ep |-> ep, files |-> files, p |-> p]]
  /\ pc' = [pc EXCEPT ![w] = "validate"]
  /\ UNCHANGED <<fn, ended, cfg, now, upload_dir, download_dir, tmp_dir,
                 input_paths, out, job, resp, svc, rm_failed, sweep>>

\* the checks at the top of the handler, before the first save_upload_file
Validate(w) ==
  /\ pc[w] = "validate"
  /\ LET r == req[w] IN
       IF ParamsAccepted(r.ep, r.files, r.p) /\ FilesAccepted(r.ep, r.files)
       THEN /\ pc' = [pc EXCEPT ![w] = IF Len(r.files) = 0 THEN "body" ELSE "save"]
            /\ UNCHANGED <<resp, ended>>
       ELSE /\ pc' = [pc EXCEPT ![w] = "done"]
            /\ resp' = [resp EXCEPT ![w] = [status |-> 400]]
            /\ ended' = [ended EXCEPT ![w] = "invalid"]
  /\ UNCHANGED <<fn, cfg, now, upload_dir, download_dir, tmp_dir, req,
                 input_paths, out, job, svc, rm_failed, sweep>>

\* save_upload_file writes the next upload and returns its path
SaveOk(w) ==
  /\ pc[w] = "save"
  /\ LET r == req[w]
         i == Len(input_paths[w]) + 1
         path == UploadPath(r.ep, r.files[i], now, uuid4(w, i))
     IN /\ upload_dir' = Put(upload_dir, path, File(now, UploadSize, w))
        /\ input_paths' = [input_paths EXCEPT ![w] = Append(@, path)]
        /\ pc' = [pc EXCEPT ![w] = IF i = Len(r.files) THEN "body" ELSE "save"]
  /\ UNCHANGED <<fn, ended, cfg, now, download_dir, tmp_dir, req, out, job, resp, svc,
                 rm_failed, sweep>>

\* save_upload_file raises (mkdir, open, read or write fails), outside any
\* try block of the handler: the file may be left behind, partially written
SaveFail(w) ==
  /\ pc[w] = "save"
  /\ LET r == req[w]
         i == Len(input_paths[w]) + 1
         path == UploadPath(r.ep, r.files[i], now, uuid4(w, i))
     IN \E created \in BOOLEAN :
          upload_dir' = IF created THEN Put(upload_dir, path, File(now, 0, w))
                        ELSE upload_dir
  /\ resp' = [resp EXCEPT ![w] = [status |-> 500]]
  /\ ended' = [ended EXCEPT ![w] = "save error"]
  /\ pc' = [pc EXCEPT ![w] = "done"]
  /\ UNCHANGED <<fn, cfg, now, download_dir, tmp_dir, req, input_paths, out, job,
                 svc, rm_failed, sweep>>
\* a cleanup that leaves every file where it is
cleanup_files_nothing(dir, paths, failing) == dir

\* cleanup_file(path) for every path of paths; os.remove fails for those in failing
cleanup_files(dir, paths, failing) ==
  [x \in (DOMAIN dir) \ (paths \ failing) |-> dir[x]]

Range(seq) == {seq[i] : i \in 1..Len(seq)}

\* ------------------------------------------------------- the service call
\* endpoints whose service call keeps scratch files; their call is modelled
\* step by step further below
ScratchEndpoints == {"/pdf/to-word", "/pdf/to-ppt", "/image/adjust"}

\* json.loads(annotations) of /pdf/edit-batch succeeds
json_loads_ok(text) == text = "[]"

\* the if/elif chain of /pdf/add-annotation reaches an editor call
\* (otherwise: HTTPException(400, "Invalid annotation parameters"))
AnnotationAccepted(p) ==
  \/ p.annotation_type \in {"highlight", "underline", "strikeout", "rectangle"}
       /\ TruthyStr(p.rect)
  \/ p.annotation_type = "circle" /\ TruthyStr(p.center) /\ Truthy(p.radius)
  \/ p.annotation_type \in {"line", "arrow"} /\ TruthyStr(p.start) /\ TruthyStr(p.end)
  \/ p.annotation_type = "note" /\ TruthyStr(p.point) /\ TruthyStr(p.text)
  \/ p.annotation_type = "freetext" /\ TruthyStr(p.rect) /\ TruthyStr(p.text)

\* an HTTPException(400) the handler raises inside its try block, before
\* the output is written
RejectedInBody(ep, p) ==
  CASE ep = "/pdf/edit-batch" -> ~json_loads_ok(p.annotations)
    [] ep = "/pdf/add-annotation" -> ~AnnotationAccepted(p)
    [] OTHER -> FALSE

\* pdf_ops.split_pdf: the branch taken ("none": no branch, returns [])
split_pdf_branch(mode, start_page, end_page, pages) ==
  IF mode = "all" THEN "all"
  ELSE IF mode = "range" /\ Truthy(start_page) /\ Truthy(end_page) THEN "range"
  ELSE IF mode = "extract" /\ TruthyStr(pages) THEN "extract"
  ELSE "none"

\* number of files split_pdf writes for a PDF of total_pages pages
split_pdf_count(branch, total_pages) ==
  CASE branch = "all" -> total_pages
    [] branch \in {"range", "extract"} -> 1
    [] OTHER -> 0

\* img_ops.resize_image: the branch taken ("unchanged": resized = img)
resize_image_branch(mode, width, height, scale) ==
  IF mode = "scale" /\ Truthy(scale) THEN "scale"
  ELSE IF mode = "exact" /\ Truthy(width) /\ Truthy(height) THEN "exact"
  ELSE IF mode = "fit" THEN "fit"
  ELSE IF mode = "fill" /\ Truthy(width) /\ Truthy(height) THEN "fill"
  ELSE "unchanged"

\* the branch of the service function the arguments select
ServiceBranch(ep, p) ==
  CASE ep = "/pdf/split" -> split_pdf_branch(p.mode, p.start_page, p.end_page, p.pages)
    [] ep = "/image/resize" -> resize_image_branch(p.mode, p.width, p.height, p.scale)
    [] OTHER -> "call"

\* the record of a service call: the uploads and parameters it was given
Call(r) == <<[files |-> r.files, p |-> r.p, branch |-> ServiceBranch(r.ep, r.p)]>>

\* a service function that returns normally has written output_path
\* (image_to_pdf saves only `if images`)
WritesOutput(ep, paths) ==
  IF ep = "/pdf/from-images" THEN Len(paths) > 0 ELSE TRUE
\* every handler answering as /pdf/unlock does
StatusAlways400(ep) == 400

\* status of the response when the try block of ep ends with an exception
\* that is not an HTTPException (/pdf/unlock: `except Exception` -> 400)
StatusOnException(ep) == IF ep = "/pdf/unlock" THEN 400 ELSE 500

\* the files of a multi-file result: pdf_ops.split_pdf writes into
\* {DOWNLOAD_DIR}/split_{now}, editor.extract_images into images_{now}
MultiPaths(ep, n, ts, uid) ==
  { Path("downloads",
         <<IF ep = "/pdf/split" THEN "split" ELSE "images", ts>>,
         Name("page", i, uid, ".pdf")) : i \in 1..n }

PutAll(m, paths, file) ==
  [x \in (DOMAIN m) \cup paths |-> IF x \in paths THEN file ELSE m[x]]
\* a response built without Path(output_path).stat()
StatResponseUnchecked(ep, name, dir) ==
  [status |-> 200, file_url |-> FileUrl(name), filename |-> name, file_size |-> 0]

\* the response of a handler that stats output_path after the service call
StatResponse(ep, name, dir) ==
  IF OutputPath(name) \in DOMAIN dir
  THEN [status |-> 200, file_url |-> FileUrl(name), filename |-> name,
        file_size |-> dir[OutputPath(name)].size]
  ELSE [status |-> StatusOnException(ep)]

\* how a handler that stats output_path leaves its try block
StatEnded(name, dir) ==
  IF OutputPath(name) \in DOMAIN dir THEN "returned" ELSE "no output"

\* The try block of a handler whose service call keeps no scratch file:
\* generate the output name, call the service, stat the output, build the
\* response.
Body(w) ==
  /\ pc[w] = "body"
  /\ req[w].ep \notin ScratchEndpoints
  /\ LET r == req[w]
         ep == r.ep
         name == OutputFilename(ep, r.files, now, uuid4(w, Len(input_paths[w]) + 1))
         opath == OutputPath(name)
         kind == Returns(ep)
     IN
     /\ out' = [out EXCEPT ![w] = IF kind \in {"file", "sized"} THEN <<name>> ELSE <<>>]
     /\ pc' = [pc EXCEPT ![w] = IF ep \in NoUpload THEN "done" ELSE "finally"]
     /\ \/ \* HTTPException(400) raised by the handler itself
           /\ RejectedInBody(ep, r.p)
           /\ resp' = [resp EXCEPT ![w] = [status |-> 400]]
           /\ ended' = [ended EXCEPT ![w] = "rejected"]
           /\ svc' = svc
           /\ download_dir' = download_dir
        \/ \* the service function raises
           /\ ~RejectedInBody(ep, r.p)
           /\ svc' = [svc EXCEPT ![w] = Call(r)]
           /\ ended' = [ended EXCEPT ![w] = "raised"]
           /\ \E partial \in BOOLEAN :
                download_dir' =
                  IF partial /\ kind \in {"file", "sized"}
                  THEN Put(download_dir, opath, File(now, 0, w))
                  ELSE download_dir
           /\ resp' = [resp EXCEPT ![w] =
                IF ep = "/ocr/languages"
                THEN [status |-> 200]        \* returns ["eng"] instead
                ELSE [status |-> StatusOnException(ep)]]
        \/ \* the service function returns
           /\ ~RejectedInBody(ep, r.p)
           /\ svc' = [svc EXCEPT ![w] = Call(r)]
           /\ CASE kind = "json" ->
                     /\ download_dir' = download_dir
                     /\ resp' = [resp EXCEPT ![w] = [status |-> 200]]
                     /\ ended' = [ended EXCEPT ![w] = "returned"]
                [] kind = "multi" ->
                     \E total_pages \in 0..MaxPages :
                       LET n == IF ep = "/pdf/split"
                                THEN split_pdf_count(ServiceBranch(ep, r.p), total_pages)
                                ELSE total_pages
                           paths == MultiPaths(ep, n, now, uuid4(w, 1))
                       IN /\ download_dir' = PutAll(download_dir, paths, File(now, 1, w))
                          /\ resp' = [resp EXCEPT ![w] =
                                        [status |-> 200, files |-> paths]]
                          /\ ended' = [ended EXCEPT ![w] = "returned"]
                [] kind = "sized" ->
                     \* file_size is the compressed_size the service measured
                     \E size \in 1..MaxOutSize :
                       /\ download_dir' = Put(download_dir, opath, File(now, size, w))
                       /\ resp' = [resp EXCEPT ![w] =
                            [status |-> 200, file_url |-> FileUrl(name),
                             filename |-> name, file_size |-> size]]
                       /\ ended' = [ended EXCEPT ![w] = "returned"]
                [] kind = "file" ->
                     \E size \in 1..MaxOutSize :
                       /\ download_dir' =
                            IF WritesOutput(ep, input_paths[w])
                            THEN Put(download_dir, opath, File(now, size, w))
                            ELSE download_dir
                       /\ resp' = [resp EXCEPT ![w] = StatResponse(ep, name, download_dir')]
                       /\ ended' = [ended EXCEPT ![w] = StatEnded(name, download_dir')]
  /\ UNCHANGED <<fn, cfg, now, upload_dir, tmp_dir, req, input_paths, job,
                 rm_failed, sweep>>

\* an analysis that takes exactly 100 characters for text
analyze_pdf_type_100(text_length, image_count, page_count, failed) ==
  IF failed
  THEN [is_scanned |-> FALSE, is_complex |-> TRUE, has_text |-> FALSE,
        image_count |-> 0, text_length |-> 0, page_count |-> 0,
        recommendation |-> "image"]
  ELSE LET has_text == text_length >= 100
           has_many_images == image_count >= page_count
           is_scanned == text_length < 100 /\ image_count > 0
           is_complex == has_text /\ has_many_images
       IN [is_scanned |-> is_scanned, is_complex |-> is_complex,
           has_text |-> has_text, image_count |-> image_count,
           text_length |-> text_length, page_count |-> page_count,
           recommendation |->
             IF is_scanned THEN "ocr"
             ELSE IF is_complex THEN "hybrid"
             ELSE IF has_text /\ ~has_many_images THEN "text"
             ELSE "image"]

\* --------------------------------------- PDF analysis and converter choice
\* analyze_pdf_type on a PDF whose analysed pages hold text_length characters
\* and image_count images, with page_count pages; failed: fitz raised
analyze_pdf_type(text_length, image_count, page_count, failed) ==
  IF failed
  THEN [is_scanned |-> FALSE, is_complex |-> TRUE, has_text |-> FALSE,
        image_count |-> 0, text_length |-> 0, page_count |-> 0,
        recommendation |-> "image"]
  ELSE LET has_text == text_length > 100
           has_many_images == image_count >= page_count
           is_scanned == text_length < 100 /\ image_count > 0
           is_complex == has_text /\ has_many_images
       IN [is_scanned |-> is_scanned, is_complex |-> is_complex,
           has_text |-> has_text, image_count |-> image_count,
           text_length |-> text_length, page_count |-> page_count,
           recommendation |->
             IF is_scanned THEN "ocr"
             ELSE IF is_complex THEN "hybrid"
             ELSE IF has_text /\ ~has_many_images THEN "text"
             ELSE "image"]

\* a dispatcher whose final else selects the image converter
pdf_to_word_converter_else_image(mode, recommendation) ==
  IF mode = "auto"
  THEN IF recommendation = "text" THEN "text"
       ELSE IF recommendation = "ocr" THEN "ocr"
       ELSE IF recommendation = "hybrid" THEN "hybrid"
       ELSE "image"
  ELSE IF mode \in {"hybrid", "image", "ocr", "text"} THEN mode
  ELSE "image"

\* pdf_convert.pdf_to_word: the converter the mode (and, for 'auto', the
\* recommendation of the analysis) selects
pdf_to_word_converter(mode, recommendation) ==
  IF mode = "auto"
  THEN IF recommendation = "text" THEN "text"
       ELSE IF recommendation = "ocr" THEN "ocr"
       ELSE IF recommendation = "hybrid" THEN "hybrid"
       ELSE "image"
  ELSE IF mode \in {"hybrid", "image", "ocr", "text"} THEN mode
  ELSE "hybrid"

\* is_image_based_pdf: analysis['is_scanned'] of a fresh analysis
is_image_based_pdf(text_length, image_count, page_count, failed) ==
  analyze_pdf_type(text_length, image_count, page_count, failed).is_scanned

\* pdf_to_word_with_ocr: OCR of every page only `if needs_ocr`, otherwise
\* it returns pdf_to_word_advanced(pdf_path, output_path)
pdf_to_word_with_ocr(needs_ocr) == IF needs_ocr THEN "ocr" ELSE "advanced"

\* a text-extraction path whose except clause is missing
pdf_to_word_text_unguarded(primary_fails) ==
  [conv |-> "text", primary |-> 1, fallback |-> 0, propagates |-> primary_fails]

\* the text-extraction path of pdf_to_word: try PDFToDocxConverter,
\* except Exception: return pdf_to_word_advanced(pdf_path, output_path)
pdf_to_word_text(primary_fails) ==
  [conv |-> IF primary_fails THEN "advanced" ELSE "text",
   primary |-> 1,
   fallback |-> IF primary_fails THEN 1 ELSE 0,
   propagates |-> FALSE]

\* where the text of the document a converter writes comes from
TextSource(conv) ==
  CASE conv = "ocr" -> "ocr"                   \* ocr_pdf_page(page) per page
    [] conv \in {"text", "advanced"} -> "extraction"
    [] conv = "hybrid" -> "extraction, else ocr"
    [] OTHER -> "none"

\* pdf_convert.pdf_to_word(pdf_path, output_path, mode) on a PDF with the
\* given text length, image count and page count: calls of
\* analyze_pdf_type by the dispatcher, the converter it selects, the
\* converter that writes the document, runs of pdf2docx and of the fallback
pdf_to_word(mode, text_length, image_count, page_count, failed, primary_fails) ==
  LET analysis == analyze_pdf_type(text_length, image_count, page_count, failed)
      selected == pdf_to_word_converter(mode,
                    IF mode = "auto" THEN analysis.recommendation ELSE "")
      text == pdf_to_word_text(primary_fails)
      conv == CASE selected = "text" -> text.conv
                [] selected = "ocr" ->
                     pdf_to_word_with_ocr(
                       is_image_based_pdf(text_length, image_count, page_count, failed))
                [] OTHER -> selected
  IN [analysed |-> IF mode = "auto" THEN 1 ELSE 0,
      recommendation |-> IF mode = "auto" THEN analysis.recommendation ELSE "",
      selected |-> selected,
      conv |-> conv,
      text_source |-> TextSource(conv),
      primary |-> IF selected = "text" THEN text.primary ELSE 0,
      fallback |-> IF selected = "text" THEN text.fallback ELSE 0,
      propagates |-> selected = "text" /\ text.propagates]

\* the uploaded PDFs: text length and images of the analysed pages, pages
Docs == [text : {0, 100, 101}, images : 0..MaxPages, pages : 1..MaxPages]

\* The scratch files of a converter and how often it loops:
\*   pdf_to_word_image_mode / hybrid_mode  /tmp/pdf_page_{page}_{pid}.png per page
\*   pdf_to_word_with_ocr / _advanced      /tmp/pdf_img_{page}_{n}.png per image
\*   pdf2docx (text, primary)              none
\*   pdf_to_pptx_with_ocr / _advanced      /tmp/pdf_slide_{page}.png per page
ConverterJob(conv, doc) ==
  CASE conv \in {"image", "hybrid"} -> Job(conv, "pdf_page", doc.pages)
    [] conv \in {"ocr", "advanced"} -> Job(conv, "pdf_img", doc.images)
    [] conv = "text" -> Job(conv, "", 0)
    [] conv = "pptx" -> Job(conv, "pdf_slide", doc.pages)

ScratchPath(scratch, page, pid) ==
  Path("tmp", <<>>,
       Name(scratch, page, IF scratch = "pdf_page" THEN pid ELSE 0, ".png"))

\* an exception at the scratch file is caught inside the converter
Swallows(scratch) == scratch \in {"pdf_page", "pdf_img"}

\* the handler enters its try block: output name, then the service call starts
BeginService(w) ==
  /\ pc[w] = "body"
  /\ req[w].ep \in ScratchEndpoints
  /\ LET r == req[w]
         name == OutputFilename(r.ep, r.files, now, uuid4(w, Len(input_paths[w]) + 1))
     IN
     /\ out' = [out EXCEPT ![w] = <<name>>]
     /\ svc' = [svc EXCEPT ![w] = Call(r)]
     /\ IF r.ep = "/image/adjust"
        THEN /\ job' = [job EXCEPT ![w] =
                  [Job("adjust", "temp", 0) EXCEPT !.current_path = <<input_paths[w][1]>>]]
             /\ pc' = [pc EXCEPT ![w] = "bright"]
        ELSE \E doc \in Docs, failed \in BOOLEAN, primary_fails \in BOOLEAN :
               LET call == pdf_to_word(r.p.mode, doc.text, doc.images, doc.pages,
                                       failed, primary_fails)
                   conv == IF r.ep = "/pdf/to-ppt" THEN "pptx" ELSE call.conv
                   j == ConverterJob(conv, doc)
               IN /\ job' = [job EXCEPT ![w] = j]
                  /\ pc' = [pc EXCEPT ![w] = IF j.pages = 0 THEN "final" ELSE "write"]
  /\ UNCHANGED <<fn, ended, cfg, now, upload_dir, download_dir, tmp_dir, req,
                 input_paths, resp, rm_failed, sweep>>

\* the converter saves the scratch image of the current page
ScratchWrite(w) ==
  /\ pc[w] = "write"
  /\ LET j == job[w]
         path == ScratchPath(j.scratch, j.page, w)
     IN /\ tmp_dir' = Put(tmp_dir, path, File(now, 1, w))
        /\ job' = [job EXCEPT ![w].clobbered =
                     @ \/ (path \in DOMAIN tmp_dir /\ tmp_dir[path].owner /= w)]
  /\ pc' = [pc EXCEPT ![w] = "use"]
  /\ UNCHANGED <<fn, ended, cfg, now, upload_dir, download_dir, req, input_paths,
                 out, resp, svc, rm_failed, sweep>>

\* after the last scratch file of an iteration: next page or the end
NextPage(j) == IF j.page + 1 = j.pages THEN "final" ELSE "write"

\* the converter inserts the scratch image (add_picture reads the file)
ScratchUse(w) ==
  /\ pc[w] = "use"
  /\ LET j == job[w]
         path == ScratchPath(j.scratch, j.page, w)
     IN IF path \in DOMAIN tmp_dir
        THEN /\ job' = [job EXCEPT ![w].foreign = @ \/ tmp_dir[path].owner /= w]
             /\ pc' = [pc EXCEPT ![w] = "remove"]
             /\ UNCHANGED <<resp, ended>>
        ELSE IF j.scratch = "pdf_page"
        THEN \* try: doc.add_picture(...) except: print
             /\ job' = [job EXCEPT ![w].lost = TRUE]
             /\ pc' = [pc EXCEPT ![w] = "remove"]
             /\ UNCHANGED <<resp, ended>>
        ELSE IF j.scratch = "pdf_img"
        THEN \* the enclosing try skips os.remove: except Exception: pass
             /\ job' = [job EXCEPT ![w].lost = TRUE, ![w].page = @ + 1]
             /\ pc' = [pc EXCEPT ![w] = NextPage(j)]
             /\ UNCHANGED <<resp, ended>>
        ELSE \* pdf_slide: FileNotFoundError leaves the service call
             /\ job' = [job EXCEPT ![w].lost = TRUE]
             /\ pc' = [pc EXCEPT ![w] = "finally"]
             /\ resp' = [resp EXCEPT ![w] = [status |-> StatusOnException(req[w].ep)]]
             /\ ended' = [ended EXCEPT ![w] = "raised"]
  /\ UNCHANGED <<fn, cfg, now, upload_dir, download_dir, tmp_dir, req,
                 input_paths, out, svc, rm_failed, sweep>>

\* the converter removes the scratch image: os.remove(temp_img)
ScratchRemove(w) ==
  /\ pc[w] = "remove"
  /\ LET j == job[w]
         path == ScratchPath(j.scratch, j.page, w)
     IN IF path \in DOMAIN tmp_dir
        THEN /\ tmp_dir' = Del(tmp_dir, path)
             /\ job' = [job EXCEPT ![w].clobbered = @ \/ tmp_dir[path].owner /= w,
                                   ![w].page = @ + 1]
             /\ pc' = [pc EXCEPT ![w] = NextPage(j)]
             /\ UNCHANGED <<resp, ended>>
        ELSE IF Swallows(j.scratch)
        THEN /\ tmp_dir' = tmp_dir
             /\ job' = [job EXCEPT ![w].lost = TRUE, ![w].page = @ + 1]
             /\ pc' = [pc EXCEPT ![w] = NextPage(j)]
             /\ UNCHANGED <<resp, ended>>
        ELSE /\ tmp_dir' = tmp_dir
             /\ job' = [job EXCEPT ![w].lost = TRUE]
             /\ pc' = [pc EXCEPT ![w] = "finally"]
             /\ resp' = [resp EXCEPT ![w] = [status |-> StatusOnException(req[w].ep)]]
             /\ ended' = [ended EXCEPT ![w] = "raised"]
  /\ UNCHANGED <<fn, cfg, now, upload_dir, download_dir, req, input_paths,
                 out, svc, rm_failed, sweep>>

\* the converter saves the document to output_path and returns; the
\* handler stats the file and builds the response
ConvertEnd(w) ==
  /\ pc[w] = "final"
  /\ job[w].conv /= "adjust"
  /\ LET name == out[w][1] IN
       \E size \in 1..MaxOutSize :
         /\ download_dir' = Put(download_dir, OutputPath(name), File(now, size, w))
         /\ resp' = [resp EXCEPT ![w] = StatResponse(req[w].ep, name, download_dir')]
         /\ ended' = [ended EXCEPT ![w] = StatEnded(name, download_dir')]
  /\ pc' = [pc EXCEPT ![w] = "finally"]
  /\ UNCHANGED <<fn, cfg, now, upload_dir, tmp_dir, req, input_paths, out,
                 job, svc, rm_failed, sweep>>

\* a library call of the service raises on its own
ServiceRaise(w) ==
  /\ pc[w] \in {"write", "final", "bright", "contrast"}
  /\ resp' = [resp EXCEPT ![w] = [status |-> StatusOnException(req[w].ep)]]
  /\ ended' = [ended EXCEPT ![w] = "raised"]
  /\ pc' = [pc EXCEPT ![w] = "finally"]
  /\ UNCHANGED <<fn, cfg, now, upload_dir, download_dir, tmp_dir, req,
                 input_paths, out, job, svc, rm_failed, sweep>>

\* ------------------------------------------------------------ /image/adjust
\* f"{settings.UPLOAD_DIR}/temp_bright_{int(time.time())}{ext}" (or temp_contrast_)
AdjustTemp(base, ts, ext) == Path("uploads", <<>>, Name(base, ts, 0, ext))

\* One adjustment step: img_ops.adjust_*(current_path, temp_path, factor),
\* then the bookkeeping of temp_paths / current_path.  given: the form value
\* is not None.
AdjustStep(w, given, base, next_pc) ==
  LET j == job[w]
      current_path == j.current_path[1]
      input_path == input_paths[w][1]
      temp_path == AdjustTemp(base, now, req[w].files[1].suffix)
  IN
  IF ~given
  THEN /\ pc' = [pc EXCEPT ![w] = next_pc]
       /\ UNCHANGED <<upload_dir, job, resp, ended>>
  ELSE IF current_path \notin DOMAIN upload_dir
  THEN \* Image.open(image_path) raises FileNotFoundError
       /\ job' = [job EXCEPT ![w].lost = TRUE]
       /\ resp' = [resp EXCEPT ![w] = [status |-> StatusOnException(req[w].ep)]]
       /\ ended' = [ended EXCEPT ![w] = "raised"]
       /\ pc' = [pc EXCEPT ![w] = "finally"]
       /\ UNCHANGED upload_dir
  ELSE /\ upload_dir' = Put(upload_dir, temp_path, File(now, UploadSize, w))
       /\ job' = [job EXCEPT
            ![w].foreign = @ \/ upload_dir[current_path].owner /= w,
            ![w].clobbered = @ \/ (temp_path \in DOMAIN upload_dir
                                   /\ upload_dir[temp_path].owner /= w),
            ![w].temp_paths = IF current_path /= input_path
                              THEN Append(@, current_path) ELSE @,
            ![w].current_path = <<temp_path>>]
       /\ pc' = [pc EXCEPT ![w] = next_pc]
       /\ UNCHANGED <<resp, ended>>

AdjustBrightness(w) ==
  /\ pc[w] = "bright"
  /\ AdjustStep(w, ~IsNone(req[w].p.brightness), "temp_bright", "contrast")
  /\ UNCHANGED <<fn, cfg, now, download_dir, tmp_dir, req, input_paths,
                 out, svc, rm_failed, sweep>>

AdjustContrast(w) ==
  /\ pc[w] = "contrast"
  /\ AdjustStep(w, ~IsNone(req[w].p.contrast), "temp_contrast", "final")
  /\ UNCHANGED <<fn, cfg, now, download_dir, tmp_dir, req, input_paths,
                 out, svc, rm_failed, sweep>>

\* adjust_saturation(current_path, output_path) or shutil.copy, then the
\* cleanup of the temp files, the stat of the output and the response
AdjustEnd(w) ==
  /\ pc[w] = "final"
  /\ job[w].conv = "adjust"
  /\ LET j == job[w]
         current_path == j.current_path[1]
         input_path == input_paths[w][1]
         name == out[w][1]
         temps == Range(j.temp_paths) \cup
                  (IF current_path /= input_path THEN {current_path} ELSE {})
     IN
     IF current_path \notin DOMAIN upload_dir
     THEN /\ job' = [job EXCEPT ![w].lost = TRUE]
          /\ resp' = [resp EXCEPT ![w] = [status |-> StatusOnException(req[w].ep)]]
          /\ ended' = [ended EXCEPT ![w] = "raised"]
          /\ UNCHANGED <<upload_dir, download_dir>>
     ELSE \E size \in 1..MaxOutSize :
            /\ download_dir' = Put(download_dir, OutputPath(name), File(now, size, w))
            /\ upload_dir' = cleanup_files(upload_dir, temps, {})
            /\ job' = [job EXCEPT
                 ![w].foreign = @ \/ upload_dir[current_path].owner /= w,
                 ![w].clobbered = @ \/ (\E t \in temps \cap DOMAIN upload_dir :
                                           upload_dir[t].owner /= w)]
            /\ resp' = [resp EXCEPT ![w] = StatResponse(req[w].ep, name, download_dir')]
            /\ ended' = [ended EXCEPT ![w] = StatEnded(name, download_dir')]
  /\ pc' = [pc EXCEPT ![w] = "finally"]
  /\ UNCHANGED <<fn, cfg, now, tmp_dir, req, input_paths, out, svc,
                 rm_failed, sweep>>
\* a finally block that also removes the output of a failed request
FinallyRemovingOutput(w) ==
  /\ pc[w] = "finally"
  /\ \E failing \in SUBSET (Range(input_paths[w]) \cap DOMAIN upload_dir) :
       /\ upload_dir' = cleanup_files(upload_dir, Range(input_paths[w]), failing)
       /\ rm_failed' = [rm_failed EXCEPT ![w] = failing /= {}]
  /\ download_dir' = IF resp[w].status /= 200 /\ out[w] /= <<>>
                     THEN Del(download_dir, OutputPath(out[w][1]))
                     ELSE download_dir
  /\ pc' = [pc EXCEPT ![w] = "done"]
  /\ UNCHANGED <<fn, ended, cfg, now, tmp_dir, req, input_paths,
                 out, job, resp, svc, sweep>>

\* ------------------------------------------------------------- cleanup
\* the finally block: cleanup_file / cleanup_files on the saved uploads
Finally(w) ==
  /\ pc[w] = "finally"
  /\ \E failing \in SUBSET (Range(input_paths[w]) \cap DOMAIN upload_dir) :
       /\ upload_dir' = cleanup_files(upload_dir, Range(input_paths[w]), failing)
       /\ rm_failed' = [rm_failed EXCEPT ![w] = failing /= {}]
  /\ pc' = [pc EXCEPT ![w] = "done"]
  /\ UNCHANGED <<fn, ended, cfg, now, download_dir, tmp_dir, req, input_paths,
                 out, job, resp, svc, sweep>>

\* --------------------------------------------------- time and the sweep
Tick ==
  /\ now < MaxTicks * TickSeconds
  /\ now' = now + TickSeconds
  /\ UNCHANGED <<fn, ended, cfg, upload_dir, download_dir, tmp_dir, pc, req,
                 input_paths, out, job, resp, svc, rm_failed, sweep>>

\* the clock advances by exactly the age limit of cleanup_old_files
TickMaxAge ==
  /\ now + max_age <= MaxTicks * TickSeconds
  /\ now' = now + max_age
  /\ UNCHANGED <<fn, ended, cfg, upload_dir, download_dir, tmp_dir, pc, req,
                 input_paths, out, job, resp, svc, rm_failed, sweep>>

\* cleanup_old_files starts: reads the clock and walks both directories
SweepStart ==
  /\ sweep.state = "idle"
  /\ sweep' = [NoSweep EXCEPT
                 !.state = "running", !.current_time = now,
                 !.todo = (DOMAIN upload_dir) \cup (DOMAIN download_dir)]
  /\ UNCHANGED <<fn, ended, cfg, now, upload_dir, download_dir, tmp_dir, pc, req,
                 input_paths, out, job, resp, svc, rm_failed>>

\* a sweep that also removes a file exactly max_age old
SweepKeepsBelowLimit(dir, path, removal_fails) ==
  \/ path \notin DOMAIN dir
  \/ ~(sweep.current_time - dir[path].mtime >= max_age)
  \/ removal_fails

\* the file no longer exists (getmtime raises), is young, or os.remove raises
SweepKeeps(dir, path, removal_fails) ==
  \/ path \notin DOMAIN dir
  \/ ~(sweep.current_time - dir[path].mtime > max_age)
  \/ removal_fails

\* cleanup_old_files looks at the next file of its walk
SweepFile ==
  /\ sweep.state = "running"
  /\ sweep.todo /= {}
  /\ LET path == CHOOSE x \in sweep.todo : TRUE IN
       /\ \E removal_fails \in BOOLEAN :
            /\ sweep' = [sweep EXCEPT
                 !.todo = @ \ {path},
                 !.failed = IF /\ removal_fails
                               /\ \/ ~SweepKeeps(upload_dir, path, FALSE)
                                  \/ ~SweepKeeps(download_dir, path, FALSE)
                            THEN @ \cup {path} ELSE @]
            /\ upload_dir' = IF SweepKeeps(upload_dir, path, removal_fails)
                             THEN upload_dir ELSE Del(upload_dir, path)
            /\ download_dir' = IF SweepKeeps(download_dir, path, removal_fails)
                               THEN download_dir ELSE Del(download_dir, path)
  /\ UNCHANGED <<fn, ended, cfg, now, tmp_dir, pc, req, input_paths, out, job,
                 resp, svc, rm_failed>>

\* cleanup_old_files returns {"success": True, ...}
SweepEnd ==
  /\ sweep.state = "running"
  /\ sweep.todo = {}
  /\ sweep' = [sweep EXCEPT !.state = "done", !.success = TRUE]
  /\ UNCHANGED <<fn, ended, cfg, now, upload_dir, download_dir, tmp_dir, pc, req,
                 input_paths, out, job, resp, svc, rm_failed>>

Next ==
  \/ \E w \in Workers : Receive(w)
  \/ \E w \in Workers : Validate(w)
  \/ \E w \in Workers : SaveOk(w)
  \/ \E w \in Workers : SaveFail(w)
  \/ \E w \in Workers : Body(w)
  \/ \E w \in Workers : BeginService(w)
  \/ \E w \in Workers : ScratchWrite(w)
  \/ \E w \in Workers : ScratchUse(w)
  \/ \E w \in Workers : ScratchRemove(w)
  \/ \E w \in Workers : ConvertEnd(w)
  \/ \E w \in Workers : ServiceRaise(w)
  \/ \E w \in Workers : AdjustBrightness(w)
  \/ \E w \in Workers : AdjustContrast(w)
  \/ \E w \in Workers : AdjustEnd(w)
  \/ \E w \in Workers : Finally(w)
  \/ Tick
  \/ SweepStart
  \/ SweepFile
  \/ SweepEnd

Spec == Init /\ [][Next]_vars

\* two worker processes, each with a request that keeps scratch files
InitConc ==
  InitFor([workers |-> {1, 2}, endpoints |-> ScratchEndpoints,
           names |-> {FileName("doc", ".pdf"), FileName("doc", ".png")}])

NextConc ==
  \/ \E w \in Workers : Receive(w)
  \/ \E w \in Workers : Validate(w)
  \/ \E w \in Workers : SaveOk(w)
  \/ \E w \in Workers : BeginService(w)
  \/ \E w \in Workers : ScratchWrite(w)
  \/ \E w \in Workers : ScratchUse(w)
  \/ \E w \in Workers : ScratchRemove(w)
  \/ \E w \in Workers : ConvertEnd(w)
  \/ \E w \in Workers : ServiceRaise(w)
  \/ \E w \in Workers : AdjustBrightness(w)
  \/ \E w \in Workers : AdjustContrast(w)
  \/ \E w \in Workers : AdjustEnd(w)
  \/ \E w \in Workers : Finally(w)
  \/ Tick

SpecConc == InitConc /\ [][NextConc]_vars

\* one worker process and the periodic cleanup_old_files, with files
\* exactly as old as the age limit
InitSweep ==
  InitFor([workers |-> {1}, endpoints |-> {"/pdf/compress", "/pdf/merge"},
           names |-> {FileName("doc", ".pdf")}])

NextSweep ==
  \/ \E w \in Workers : Receive(w)
  \/ \E w \in Workers : Validate(w)
  \/ \E w \in Workers : SaveOk(w)
  \/ \E w \in Workers : SaveFail(w)
  \/ \E w \in Workers : Body(w)
  \/ \E w \in Workers : Finally(w)
  \/ Tick
  \/ TickMaxAge
  \/ SweepStart
  \/ SweepFile
  \/ SweepEnd

SpecSweep == InitSweep /\ [][NextSweep]_vars

\* ------------------------------------ service functions on their own
\* the variables of the request handlers
handler_vars == <<cfg, now, upload_dir, download_dir, tmp_dir, pc, req,
                  input_paths, out, job, resp, svc, rm_failed, ended, sweep>>

\* the pages analyze_pdf_type reads: range(min(10, page_count))
AnalysedPages(page_count) ==
  IF page_count < AnalysisLimit THEN page_count ELSE AnalysisLimit

\* PDFs whose pages each hold `text` characters and `images` images
UniformDocs ==
  [pages : 0..MaxDocPages, text : {0, 9, 10, 11, 99, 100, 101}, images : 0..2]

\* total_text_length / total_images after the loop over the analysed pages
RECURSIVE TotalOver(_, _)
TotalOver(n, per_page) == IF n = 0 THEN 0 ELSE per_page + TotalOver(n - 1, per_page)

\* analyze_pdf_type(pdf_path) on a PDF of UniformDocs
Analyze ==
  /\ fn = NoCall
  /\ \E doc \in UniformDocs, failed \in BOOLEAN :
       LET T == TotalOver(AnalysedPages(doc.pages), doc.text)
           I == TotalOver(AnalysedPages(doc.pages), doc.images)
       IN fn' = [op |-> "analyze_pdf_type",
                 args |-> [doc |-> doc, T |-> T, I |-> I, P |-> doc.pages,
                           failed |-> failed],
                 result |-> analyze_pdf_type(T, I, doc.pages, failed)]
  /\ UNCHANGED handler_vars

\* the modes a caller may pass to pdf_to_word ("fast" is not a known mode)
Modes == {"auto", "hybrid", "image", "text", "ocr", "fast"}

\* pdf_to_word(pdf_path, output_path, mode) on a PDF of UniformDocs
PdfToWord ==
  /\ fn = NoCall
  /\ \E mode \in Modes, doc \in UniformDocs,
        failed \in BOOLEAN, primary_fails \in BOOLEAN :
       LET T == TotalOver(AnalysedPages(doc.pages), doc.text)
           I == TotalOver(AnalysedPages(doc.pages), doc.images)
       IN fn' = [op |-> "pdf_to_word",
                 args |-> [mode |-> mode, doc |-> doc, T |-> T, I |-> I,
                           P |-> doc.pages, failed |-> failed,
                           primary_fails |-> primary_fails],
                 result |-> pdf_to_word(mode, T, I, doc.pages, failed, primary_fails)]
  /\ UNCHANGED handler_vars

\* ------------------------------------------------ PDFEditor.replace_text
\* a span of page.get_text("dict"): font, size, colour (sRGB integer) and
\* whether `old_text in span["text"]`
Spans ==
  {[font |-> st.font, size |-> st.size, color |-> st.color, has |-> h] :
     st \in {[font |-> "Times", size |-> 10, color |-> 16711680],
             [font |-> "Courier", size |-> 14, color |-> 255]},
     h \in BOOLEAN}

SeqsUpTo(S, n) == UNION {[1..k -> S] : k \in 0..n}

\* a page: its text lines in the order of the text blocks, each a sequence of spans
Lines == SeqsUpTo(Spans, MaxSpans) \ {<<>>}
Pages == SeqsUpTo(Lines, MaxLines)

\* the documents given to replace_text: one page, or that page and a short second one
EditDocs ==
  {<<pg>> : pg \in Pages} \cup
  {<<pg, second>> : pg \in Pages,
                    second \in {<<>>, <<<<[font |-> "Courier", size |-> 14,
                                           color |-> 255, has |-> TRUE]>>>>}}

\* the bounding box of the occurrence in span j of line i
Rect(i, j) == [x0 |-> j, y0 |-> i, x1 |-> j + 1, y1 |-> i + 1]

\* page.search_for(old_text): the boxes of the occurrences, in reading order
RECURSIVE SpanHits(_, _, _)
SpanHits(line, i, j) ==
  IF j > Len(line) THEN <<>>
  ELSE (IF line[j].has THEN <<Rect(i, j)>> ELSE <<>>) \o SpanHits(line, i, j + 1)

RECURSIVE LineHits(_, _)
LineHits(page, i) ==
  IF i > Len(page) THEN <<>>
  ELSE SpanHits(page[i], i, 1) \o LineHits(page, i + 1)

search_for(page) == LineHits(page, 1)

\* ((c >> 16) / 255, ((c >> 8) & 0xFF) / 255, (c & 0xFF) / 255), in 255ths
ToRGB(c) == <<c \div 65536, (c \div 256) % 256, c % 256>>
FromRGB(rgb) == rgb[1] * 65536 + rgb[2] * 256 + rgb[3]

\* font_name = "helv"; font_size = 12; color = (0, 0, 0)
DefaultFormat == [font_name |-> "helv", font_size |-> 12, color |-> <<0, 0, 0>>]

\* the inner `for span in line["spans"]: if old_text in span["text"]: ...; break`
RECURSIVE FirstMatch(_, _)
FirstMatch(line, j) ==
  IF j > Len(line) THEN None
  ELSE IF line[j].has THEN Some(line[j])
  ELSE FirstMatch(line, j + 1)

\* the loops over blocks and lines: break leaves only the loop over the
\* spans of one line, so a match in a later line overwrites an earlier one
RECURSIVE FormatFrom(_, _, _)
FormatFrom(page, i, format) ==
  IF i > Len(page) THEN format
  ELSE LET m == FirstMatch(page[i], 1) IN
       FormatFrom(page, i + 1,
                  IF IsNone(m) THEN format
                  ELSE [font_name |-> m[1].font, font_size |-> m[1].size,
                        color |-> ToRGB(m[1].color)])

\* page.add_redact_annot(inst); page.apply_redactions(): the text in the box goes
apply_redactions(page, inst) ==
  [page EXCEPT ![inst.y0] = [@ EXCEPT ![inst.x0] = [@ EXCEPT !.has = FALSE]]]

\* an insertion point at the top of the box
InsertPointTop(inst) == <<inst.x0, inst.y0>>

\* point=(inst.x0, inst.y1)
InsertPoint(inst) == <<inst.x0, inst.y1>>

\* page.insert_text(point, text=new_text, fontsize=font_size, color=color):
\* fontname is not passed, so the text is set in insert_text's default "helv";
\* the new span comes last in the page's text
insert_text(page, format, new_has_old) ==
  Append(page, <<[font |-> "helv", size |-> format.font_size,
                  color |-> FromRGB(format.color), has |-> new_has_old]>>)

\* the body of `for inst in text_instances` from the k-th instance on
RECURSIVE ReplaceInstances(_, _, _, _, _, _)
ReplaceInstances(page, page_num, text_instances, k, ops, new_has_old) ==
  IF k > Len(text_instances) THEN [page |-> page, ops |-> ops]
  ELSE LET inst == text_instances[k]
           format == FormatFrom(page, 1, DefaultFormat)
           redacted == apply_redactions(page, inst)
       IN ReplaceInstances(
            insert_text(redacted, format, new_has_old), page_num,
            text_instances, k + 1,
            ops \o <<[kind |-> "redact", page |-> page_num, rect |-> inst],
                     [kind |-> "insert", page |-> page_num,
                      point |-> InsertPoint(inst), text |-> "new_text",
                      fontname |-> "helv", fontsize |-> format.font_size,
                      color |-> format.color]>>,
            new_has_old)

\* the body of `for page_num in pages` from the k-th page number on
RECURSIVE ReplacePages(_, _, _, _, _, _)
ReplacePages(doc, pages, k, count, ops, new_has_old) ==
  IF k > Len(pages) THEN [count |-> count, ops |-> ops, doc |-> doc]
  ELSE LET page_num == pages[k]
           page == doc[page_num + 1]
           text_instances == search_for(page)
           r == ReplaceInstances(page, page_num, text_instances, 1, ops, new_has_old)
       IN ReplacePages([doc EXCEPT ![page_num + 1] = r.page], pages, k + 1,
                       count + Len(text_instances), r.ops, new_has_old)

\* PDFEditor.replace_text(old_text, new_text, page_nums); new_has_old: old_text
\* occurs in new_text.  pages = page_nums if page_nums else range(len(self.doc))
replace_text(doc, page_nums, new_has_old) ==
  LET pages == IF ~IsNone(page_nums) /\ Len(page_nums[1]) > 0
               THEN page_nums[1]
               ELSE [i \in 1..Len(doc) |-> i - 1]
  IN ReplacePages(doc, pages, 1, 0, <<>>, new_has_old)

ReplaceText ==
  /\ fn = NoCall
  /\ \E doc \in EditDocs, new_has_old \in BOOLEAN :
       \E page_nums \in {None, Some(<<>>)} \cup {Some(<<i - 1>>) : i \in 1..Len(doc)} :
         fn' = [op |-> "replace_text",
                args |-> [doc |-> doc, page_nums |-> page_nums,
                          new_has_old |-> new_has_old],
                result |-> replace_text(doc, page_nums, new_has_old)]
  /\ UNCHANGED handler_vars

\* page.add_redact_annot(inst, fill=fill_color) for every instance, then one
\* page.apply_redactions(): the text in every marked box goes
RECURSIVE RedactInstances(_, _, _)
RedactInstances(page, text_instances, k) ==
  IF k > Len(text_instances) THEN page
  ELSE RedactInstances(apply_redactions(page, text_instances[k]),
                       text_instances, k + 1)

\* the body of `for page_num in pages` of redact_text from the k-th page number on
RECURSIVE RedactPages(_, _, _, _, _)
RedactPages(doc, pages, k, count, ops) ==
  IF k > Len(pages) THEN [count |-> count, ops |-> ops, doc |-> doc]
  ELSE LET page_num == pages[k]
           page == doc[page_num + 1]
           instances == search_for(page)
           annots == [i \in 1..Len(instances) |->
                        [kind |-> "annot", page |-> page_num,
                         rect |-> instances[i]]]
       IN IF instances /= <<>>
          THEN RedactPages(
                 [doc EXCEPT ![page_num + 1] = RedactInstances(page, instances, 1)],
                 pages, k + 1, count + Len(instances),
                 ops \o annots \o <<[kind |-> "apply", page |-> page_num]>>)
          ELSE RedactPages(doc, pages, k + 1, count, ops)

\* PDFEditor.redact_text(search_text, page_nums)
\* pages = page_nums if page_nums else range(len(self.doc))
redact_text(doc, page_nums) ==
  LET pages == IF ~IsNone(page_nums) /\ Len(page_nums[1]) > 0
               THEN page_nums[1]
               ELSE [i \in 1..Len(doc) |-> i - 1]
  IN RedactPages(doc, pages, 1, 0, <<>>)

RedactText ==
  /\ fn = NoCall
  /\ \E doc \in EditDocs :
       \E page_nums \in {None, Some(<<>>)} \cup {Some(<<i - 1>>) : i \in 1..Len(doc)} :
         fn' = [op |-> "redact_text",
                args |-> [doc |-> doc, page_nums |-> page_nums],
                result |-> redact_text(doc, page_nums)]
  /\ UNCHANGED handler_vars

\* ------------------------------------- merge_pdfs, split_pdf, rotate_pdf
\* reader.pages of the PDF number src with n pages, none of them rotated
PdfPages(src, n) == [i \in 1..n |-> [src |-> src, no |-> i, rotation |-> 0]]

\* for page in reader.pages: writer.add_page(page), from the i-th page on
RECURSIVE AddPages(_, _, _)
AddPages(reader, i, writer) ==
  IF i > Len(reader) THEN writer
  ELSE AddPages(reader, i + 1, Append(writer, reader[i]))

\* for pdf_path in pdf_paths: ..., from the k-th path on
RECURSIVE MergeFrom(_, _, _)
MergeFrom(readers, k, writer) ==
  IF k > Len(readers) THEN writer
  ELSE MergeFrom(readers, k + 1, AddPages(readers[k], 1, writer))

\* a merge that takes the inputs last to first
merge_pdfs_last_first(readers) ==
  MergeFrom([k \in 1..Len(readers) |-> readers[Len(readers) + 1 - k]], 1, <<>>)

\* merge_pdfs(pdf_paths, output_path): the pages written to output_path
merge_pdfs(readers) == MergeFrom(readers, 1, <<>>)

MergePdfs ==
  /\ fn = NoCall
  /\ \E n \in 1..MaxFiles :
       \E counts \in [1..n -> 0..MaxOpPages] :
         LET readers == [d \in 1..n |-> PdfPages(d, counts[d])]
         IN fn' = [op |-> "merge_pdfs",
                   args |-> [readers |-> readers],
                   result |-> [pages |-> merge_pdfs(readers)]]
  /\ UNCHANGED handler_vars

\* reader.pages[i] of a PDF with total_pages pages: the page number read,
\* 0 when the index is out of range (IndexError)
PageAt(total_pages, i) ==
  IF i >= 0 /\ i < total_pages THEN i + 1
  ELSE IF i < 0 /\ i + total_pages >= 0 THEN i + total_pages + 1
  ELSE 0

\* for i in range(i, stop): writer.add_page(reader.pages[i])
RECURSIVE AddRange(_, _, _, _)
AddRange(total_pages, i, stop, writer) ==
  IF i >= stop THEN [raises |-> FALSE, pages |-> writer]
  ELSE IF PageAt(total_pages, i) = 0 THEN [raises |-> TRUE, pages |-> writer]
  ELSE AddRange(total_pages, i + 1, stop, Append(writer, PageAt(total_pages, i)))

\* split_pdf(pdf_path, output_dir, "range", start_page, end_page): the
\* number of files written and the page numbers of the file of the range
split_pdf_range(total_pages, start_page, end_page) ==
  IF split_pdf_branch("range", Some(start_page), Some(end_page), None) /= "range"
  THEN [raises |-> FALSE, files |-> 0, pages |-> <<>>]
  ELSE LET stop == IF end_page < total_pages THEN end_page ELSE total_pages
           r == AddRange(total_pages, start_page - 1, stop, <<>>)
       IN [raises |-> r.raises, files |-> IF r.raises THEN 0 ELSE 1,
           pages |-> r.pages]

SplitRange ==
  /\ fn = NoCall
  /\ \E total_pages \in 0..MaxOpPages :
       \E start_page \in -2..(MaxOpPages + 1), end_page \in -2..(MaxOpPages + 1) :
         fn' = [op |-> "split_pdf",
                args |-> [total_pages |-> total_pages,
                          start_page |-> start_page, end_page |-> end_page],
                result |-> split_pdf_range(total_pages, start_page, end_page)]
  /\ UNCHANGED handler_vars

\* page.rotate(angle)
rotate(page, angle) == [page EXCEPT !.rotation = (@ + angle) % 360]

\* a rotation that takes the numbers of `pages` as 0-indexed
rotate_pdf_zero_indexed(reader, angle, pages) ==
  [i \in 1..Len(reader) |->
     IF IsNone(pages) \/ (i - 1) \in pages[1]
     THEN rotate(reader[i], angle) ELSE reader[i]]

\* rotate_pdf: for i, page in enumerate(reader.pages):
\*   if pages is None or (i + 1) in pages: page.rotate(angle)
\*   writer.add_page(page)
\* (i below is i + 1 of the code; pages[1] holds the elements of the list)
rotate_pdf(reader, angle, pages) ==
  [i \in 1..Len(reader) |->
     IF IsNone(pages) \/ i \in pages[1]
     THEN rotate(reader[i], angle) ELSE reader[i]]

RotatePdf ==
  /\ fn = NoCall
  /\ \E n \in 0..MaxOpPages, angle \in {90, 180, 270} :
       \E turned \in SUBSET (1..n) :
         \E pages \in {None} \cup {Some(l) : l \in SUBSET (0..(n + 1))} :
           LET reader == [i \in 1..n |->
                            [src |-> 1, no |-> i,
                             rotation |-> IF i \in turned THEN 90 ELSE 0]]
           IN fn' = [op |-> "rotate_pdf",
                     args |-> [reader |-> reader, angle |-> angle, pages |-> pages],
                     result |-> [pages |-> rotate_pdf(reader, angle, pages)]]
  /\ UNCHANGED handler_vars

\* ------------------------------------------------- PDFEditor lifecycle
\* the endpoints whose handler (or the function the handler calls:
\* get_pdf_structure, edit_pdf_with_annotations) runs a
\* `with PDFEditor(input_path) as editor:` block
EditorEndpoints ==
  {"/pdf/structure", "/pdf/extract-text", "/pdf/add-text", "/pdf/replace-text",
   "/pdf/add-annotation", "/pdf/add-image", "/pdf/redact",
   "/pdf/extract-images", "/pdf/edit-batch"}

\* the blocks that end in editor.save(output_path)
EditorSaves(ep) ==
  ep \in {"/pdf/add-text", "/pdf/replace-text", "/pdf/add-annotation",
          "/pdf/add-image", "/pdf/redact", "/pdf/edit-batch"}

\* the editor calls a block makes before save: the annotations of the batch,
\* the three reads of /pdf/extract-text, one read per page of the structure
EditorCalls(ep) ==
  CASE ep = "/pdf/edit-batch" -> 0..MaxAnnotations
    [] ep = "/pdf/structure" -> 0..MaxAnnotations
    [] ep = "/pdf/extract-text" -> {3}
    [] OTHER -> {1}

\* PDFEditor.__init__ returned: self.doc = fitz.open(pdf_path)
\*   todo     editor calls the block has still to make
\*   invalid  the if/elif chain of /pdf/add-annotation ends in its else
\*   events   the calls made on the document so far, in order
PDFEditor(ep, todo, invalid, output_path) ==
  [op |-> "PDFEditor", ep |-> ep, pc |-> "body", todo |-> todo,
   invalid |-> invalid, output_path |-> output_path,
   doc |-> "open", opened |-> 1, closed |-> 0, events |-> <<"open">>,
   raised |-> FALSE, status |-> 0]

\* fitz.open raised in __init__: there is no editor and the block is not entered
NoEditor(ep, output_path) ==
  [op |-> "PDFEditor", ep |-> ep, pc |-> "not entered", todo |-> 0,
   invalid |-> FALSE, output_path |-> output_path,
   doc |-> "none", opened |-> 0, closed |-> 0, events |-> <<>>,
   raised |-> TRUE, status |-> 500]

\* a method of the editor is called: it works on self.doc, open or not
EditorCall(ed, kind) == [ed EXCEPT !.events = Append(@, kind)]

\* PDFEditor.close: self.doc.close()
PDFEditor_close(ed) ==
  [EditorCall(ed, "close") EXCEPT !.doc = "closed", !.closed = @ + 1]

\* an __exit__ that closes only after a body that did not raise
PDFEditor_exit_on_return(ed, raising) ==
  IF raising THEN [ed EXCEPT !.pc = "left", !.raised = TRUE]
  ELSE [PDFEditor_close(ed) EXCEPT !.pc = "left"]

\* PDFEditor.__exit__(exc_type, exc_val, exc_tb): self.close(); it returns
\* None, so an exception of the body goes on to the caller
PDFEditor_exit(ed, raising) ==
  [PDFEditor_close(ed) EXCEPT !.pc = "left", !.raised = raising]

\* `with pdf_editor.PDFEditor(input_path) as editor:` is reached
EditorEnter ==
  /\ fn = NoCall
  /\ \E ep \in EditorEndpoints, p \in Params("/pdf/add-annotation") :
       \E todo \in EditorCalls(ep), opens \in BOOLEAN :
         LET output_path ==
               OutputPath(OutputFilename(ep, <<FileName("doc", ".pdf")>>,
                                         now, uuid4(1, 1)))
             invalid == ep = "/pdf/add-annotation" /\ ~AnnotationAccepted(p)
         IN fn' = IF opens THEN PDFEditor(ep, todo, invalid, output_path)
                  ELSE NoEditor(ep, output_path)
  /\ UNCHANGED handler_vars

\* one statement of the block before save: an editor call that returns or
\* raises, or the HTTPException(400) of /pdf/add-annotation
EditorStep ==
  /\ fn.op = "PDFEditor"
  /\ fn.pc = "body"
  /\ fn.todo > 0
  /\ LET kind == IF EditorSaves(fn.ep) THEN "edit" ELSE "extract" IN
     \/ /\ fn.invalid
        /\ fn' = [fn EXCEPT !.pc = "raising", !.status = 400]
     \/ /\ ~fn.invalid
        /\ fn' = [EditorCall(fn, kind) EXCEPT !.todo = @ - 1]
     \/ /\ ~fn.invalid
        /\ fn' = [EditorCall(fn, kind) EXCEPT !.pc = "raising", !.status = 500]
  /\ UNCHANGED handler_vars

\* PDFEditor.save(output_path): self.doc.save(output_path, ...), which may
\* raise after it has created the file
EditorSave ==
  /\ fn.op = "PDFEditor"
  /\ fn.pc = "body"
  /\ fn.todo = 0
  /\ EditorSaves(fn.ep)
  /\ \/ \E size \in 1..MaxOutSize :
          /\ download_dir' = Put(download_dir, fn.output_path, File(now, size, 0))
          /\ fn' = [EditorCall(fn, "save") EXCEPT !.pc = "exit"]
     \/ \E partial \in BOOLEAN :
          /\ download_dir' = IF partial
                             THEN Put(download_dir, fn.output_path, File(now, 0, 0))
                             ELSE download_dir
          /\ fn' = [EditorCall(fn, "save") EXCEPT !.pc = "raising", !.status = 500]
  /\ UNCHANGED <<cfg, now, upload_dir, tmp_dir, pc, req, input_paths, out,
                 job, resp, svc, rm_failed, ended, sweep>>

\* the end of a block that does not save
EditorBodyEnd ==
  /\ fn.op = "PDFEditor"
  /\ fn.pc = "body"
  /\ fn.todo = 0
  /\ ~EditorSaves(fn.ep)
  /\ fn' = [fn EXCEPT !.pc = "exit"]
  /\ UNCHANGED handler_vars

\* the block is left, by its end or by an exception
EditorExit ==
  /\ fn.op = "PDFEditor"
  /\ fn.pc \in {"exit", "raising"}
  /\ fn' = PDFEditor_exit(fn, fn.pc = "raising")
  /\ UNCHANGED handler_vars

NextFn ==
  \/ Analyze
  \/ PdfToWord
  \/ ReplaceText
  \/ RedactText
  \/ MergePdfs
  \/ SplitRange
  \/ RotatePdf
  \/ EditorEnter
  \/ EditorStep
  \/ EditorSave
  \/ EditorBodyEnd
  \/ EditorExit

SpecFn == Init /\ [][NextFn]_vars

\* --------------------------------------------------- background tasks
\* the Celery tasks of workers.py that run a conversion
TaskNames ==
  {"convert_pdf_to_word_task", "convert_pdf_to_excel_task",
   "remove_background_task", "ocr_pdf_task", "ocr_pdf_to_searchable_task",
   "merge_pdfs_task"}

\* the uploads a caller may hand to a task, and the output path it names
TaskInput(k) ==
  UploadPath("/pdf/merge", FileName("doc", ".pdf"), 0, uuid4(0, k))
TaskOutput == OutputPath(Name("task", 0, uuid4(0, 0), ".out"))

\* the input paths of a call: one path, for merge_pdfs_task a list
TaskArgs(name) ==
  IF name = "merge_pdfs_task"
  THEN {[k \in 1..n |-> TaskInput(k)] : n \in 0..MaxFiles}
  ELSE {<<TaskInput(1)>>}

\* the service function a task calls; remove_background_task: `if bg_color:`
TaskService(name, bg_color) ==
  CASE name = "convert_pdf_to_word_task" -> "pdf_convert.pdf_to_word"
    [] name = "convert_pdf_to_excel_task" -> "pdf_convert.pdf_to_excel"
    [] name = "remove_background_task" ->
         IF TruthyStr(bg_color)
         THEN "bg_service.remove_background_with_color"
         ELSE "bg_service.remove_background"
    [] name = "ocr_pdf_task" -> "ocr_service.ocr_pdf"
    [] name = "ocr_pdf_to_searchable_task" -> "ocr_service.ocr_pdf_to_searchable"
    [] name = "merge_pdfs_task" -> "pdf_ops.merge_pdfs"

\* a task at the top of its try block
\*   progress  the progress values update_state has reported
\*   service   "" before the service call, then "returned" or "raised"
\*   cleaned   per input path: the cleanup_file calls made for it
\*   error     str(e) of the exception the except clause caught
Task(name, paths, bg_color) ==
  [op |-> "task", name |-> name, input_paths |-> paths,
   bg_color |-> bg_color, pc |-> "begin", progress |-> <<>>,
   service |-> "", called |-> "",
   cleaned |-> [p \in Range(paths) |-> 0],
   error |-> "", result |-> None]

\* self.update_state(state="PROCESSING", meta={"progress": n}) returns, or
\* raises (the result backend is not reachable)
update_state(task, n, next_pc, backend_fails) ==
  IF backend_fails
  THEN [task EXCEPT !.pc = "except", !.error = "update_state"]
  ELSE [task EXCEPT !.pc = next_pc, !.progress = Append(@, n)]

\* a task that cleans up only when nothing raised
cleanup_inputs_in_try(task) ==
  IF task.pc = "except" THEN task
  ELSE [task EXCEPT !.cleaned = [p \in DOMAIN @ |-> @[p] + 1]]

\* cleanup_file(input_path); for path in input_paths: cleanup_file(path)
cleanup_inputs(task) ==
  [task EXCEPT !.cleaned = [p \in DOMAIN @ |-> @[p] + 1]]

\* the state before a task runs: the uploads of its caller, some of them
\* possibly gone already
InitTask ==
  /\ cfg = [workers |-> {}, endpoints |-> {}, names |-> {}]
  /\ now = 0
  /\ \E present \in SUBSET {TaskInput(k) : k \in 1..MaxFiles} :
       upload_dir = PutAll(EmptyMap, present, File(0, UploadSize, 0))
  /\ download_dir = EmptyMap
  /\ tmp_dir = EmptyMap
  /\ pc = [w \in Workers |-> "idle"]
  /\ req = [w \in Workers |-> NoRequest]
  /\ input_paths = [w \in Workers |-> <<>>]
  /\ out = [w \in Workers |-> <<>>]
  /\ job = [w \in Workers |-> NoJob]
  /\ resp = [w \in Workers |-> NoResponse]
  /\ svc = [w \in Workers |-> NotCalled]
  /\ rm_failed = [w \in Workers |-> FALSE]
  /\ ended = [w \in Workers |-> ""]
  /\ sweep = NoSweep
  /\ fn = NoCall

\* a worker takes a task from the queue
TaskBegin ==
  /\ fn = NoCall
  /\ \E name \in TaskNames, bg_color \in {None, Some(""), Some("#FFFFFF")} :
       \E paths \in TaskArgs(name) :
         fn' = Task(name, paths,
                    IF name = "remove_background_task" THEN bg_color ELSE None)
  /\ UNCHANGED handler_vars

\* self.update_state(state="PROCESSING", meta={"progress": 10})
TaskProgress10 ==
  /\ fn.op = "task"
  /\ fn.pc = "begin"
  /\ \E backend_fails \in BOOLEAN :
       fn' = update_state(fn, 10, "service", backend_fails)
  /\ UNCHANGED handler_vars

\* result = <service function>(input_path, output_path, ...): it returns,
\* having written its output, or raises; it raises when an input is missing
TaskCall ==
  /\ fn.op = "task"
  /\ fn.pc = "service"
  /\ LET called == TaskService(fn.name, fn.bg_color) IN
     \/ /\ Range(fn.input_paths) \subseteq DOMAIN upload_dir
        /\ fn' = [fn EXCEPT !.pc = "progress", !.service = "returned",
                            !.called = called]
        /\ download_dir' = IF fn.name = "ocr_pdf_task" THEN download_dir
                           ELSE Put(download_dir, TaskOutput, File(now, 1, 0))
     \/ /\ fn' = [fn EXCEPT !.pc = "except", !.service = "raised",
                            !.called = called, !.error = called]
        /\ download_dir' = download_dir
  /\ UNCHANGED <<cfg, now, upload_dir, tmp_dir, pc, req, input_paths, out,
                 job, resp, svc, rm_failed, ended, sweep>>

\* self.update_state(state="PROCESSING", meta={"progress": 90})
TaskProgress90 ==
  /\ fn.op = "task"
  /\ fn.pc = "progress"
  /\ \E backend_fails \in BOOLEAN :
       fn' = update_state(fn, 90, "cleanup", backend_fails)
  /\ UNCHANGED handler_vars

\* the cleanup_file calls, at the end of the try block or in the except clause
TaskCleanup ==
  /\ fn.op = "task"
  /\ fn.pc \in {"cleanup", "except"}
  /\ \E failing \in SUBSET (Range(fn.input_paths) \cap DOMAIN upload_dir) :
       upload_dir' = cleanup_files(upload_dir, Range(fn.input_paths), failing)
  /\ fn' = [cleanup_inputs(fn) EXCEPT
              !.pc = IF fn.pc = "except" THEN "return error" ELSE "return"]
  /\ UNCHANGED <<cfg, now, download_dir, tmp_dir, pc, req, input_paths, out,
                 job, resp, svc, rm_failed, ended, sweep>>

\* return {"success": True, ...} / return {"success": False, "error": str(e)}
TaskReturn ==
  /\ fn.op = "task"
  /\ fn.pc \in {"return", "return error"}
  /\ fn' = [fn EXCEPT
       !.pc = "returned",
       !.result = IF fn.pc = "return"
                  THEN Some([success |-> TRUE, error |-> ""])
                  ELSE Some([success |-> FALSE, error |-> fn.error])]
  /\ UNCHANGED handler_vars

NextTask ==
  \/ TaskBegin
  \/ TaskProgress10
  \/ TaskCall
  \/ TaskProgress90
  \/ TaskCleanup
  \/ TaskReturn

SpecTask == InitTask /\ [][NextTask]_vars

\* =========================================================== properties
\* handlers that take exactly one UploadFile
SingleUpload == Endpoints \ (ListUpload \cup TwoUploads \cup NoUpload)

\* no file of worker w in a directory
NothingOf(w, dir) == \A x \in DOMAIN dir : dir[x].owner /= w

\* C1: once a single-upload handler has returned or raised, the input file
\* it saved is no longer in the upload directory, whether the handler
\* succeeded, raised an HTTPException or raised any other exception
\* (os.remove itself not failing).
C1_InputRemoved ==
  \A w \in Workers :
    (/\ pc[w] = "done"
     /\ req[w].ep \in SingleUpload
     /\ Len(input_paths[w]) = 1
     /\ ~rm_failed[w])
    => input_paths[w][1] \notin DOMAIN upload_dir

\* a single-upload handler raised HTTPException(400) inside its try block
\* after the upload was saved, and the upload is gone
C1_Witness ==
  \E w \in Workers :
    /\ pc[w] = "done"
    /\ req[w].ep \in SingleUpload
    /\ ended[w] = "rejected"
    /\ Len(input_paths[w]) = 1
    /\ input_paths[w][1] \notin DOMAIN upload_dir

\* C2: once a multi-upload handler (/pdf/merge, /pdf/from-images,
\* /pdf/add-image) has returned or raised, every upload it saved is no
\* longer in the upload directory, also when saving a later upload failed.
C2_AllInputsRemoved ==
  \A w \in Workers :
    (/\ pc[w] = "done"
     /\ req[w].ep \in ListUpload \cup TwoUploads
     /\ ~rm_failed[w])
    => \A i \in 1..Len(input_paths[w]) : input_paths[w][i] \notin DOMAIN upload_dir

\* the first upload has no filename or an extension outside allowed
C3_BadName(f, allowed) == f.stem = "" \/ Lower(f.suffix) \notin allowed

\* a request that the filename/extension validation or a pre-save parameter
\* check has to reject
C3_Rejectable(r) ==
  \/ /\ r.ep \in ValidatesPdf
     /\ C3_BadName(r.files[1], {".pdf"})
  \/ /\ r.ep \in ValidatesImage
     /\ C3_BadName(r.files[1], {".jpg", ".jpeg", ".png", ".webp", ".gif", ".bmp"})
  \/ /\ r.ep \in {"/pdf/from-word", "/pdf/from-excel", "/pdf/from-ppt"}
     /\ C3_BadName(r.files[1], DocumentExtensions(r.ep))
  \/ /\ r.ep = "/pdf/merge"
     /\ \/ Len(r.files) < 2
        \/ \E i \in 1..Len(r.files) : C3_BadName(r.files[i], {".pdf"})
  \/ /\ r.ep = "/pdf/rotate"
     /\ r.p.angle \notin {90, 180, 270}
  \/ /\ r.ep = "/image/resize"
     /\ IsNone(r.p.width) /\ IsNone(r.p.height) /\ IsNone(r.p.scale)
  \/ /\ r.ep = "/image/compress"
     /\ r.p.quality \notin 1..100
  \/ /\ r.ep = "/image/flip"
     /\ r.p.direction \notin {"horizontal", "vertical"}

\* C3: a request with a missing filename, a disallowed extension (compared
\* case-insensitively) or a parameter failing a pre-save check (merge with
\* fewer than two files or a non-PDF, rotate angle outside {90, 180, 270},
\* resize without width/height/scale, compress quality outside 1..100,
\* flip direction not horizontal/vertical) is answered with HTTP 400, and
\* the request writes no file and makes no service call.
C3_RejectedBeforeSave ==
  \A w \in Workers :
    (/\ pc[w] \notin {"idle", "validate"}
     /\ C3_Rejectable(req[w]))
    => /\ pc[w] = "done"
       /\ resp[w].status = 400
       /\ svc[w] = NotCalled
       /\ input_paths[w] = <<>>
       /\ NothingOf(w, upload_dir)
       /\ NothingOf(w, download_dir)
       /\ NothingOf(w, tmp_dir)

\* a well-named PDF sent to /pdf/rotate with angle 45 was answered 400
C3_Witness ==
  \E w \in Workers :
    /\ pc[w] = "done"
    /\ req[w].ep = "/pdf/rotate"
    /\ req[w].p.angle = 45
    /\ req[w].files[1] = FileName("doc", ".PDF")
    /\ resp[w].status = 400
    /\ svc[w] = NotCalled

\* the extensions the handler of ep is meant to accept for its i-th upload
C4_Allowed(ep, i) ==
  CASE ep \in {"/pdf/from-word", "/pdf/from-excel", "/pdf/from-ppt"} ->
         DocumentExtensions(ep)
    [] ep = "/pdf/from-images" -> ImageExtensions
    [] ep = "/pdf/add-image" -> IF i = 1 THEN {".pdf"} ELSE ImageExtensions
    [] ep \in ImageEndpoints \cup {"/ocr/image", "/ocr/image-to-pdf"} -> ImageExtensions
    [] OTHER -> {".pdf"}

\* C4: every upload of a request has a filename and an allowed extension
\* by the time that upload is saved or passed to the service.
C4_EveryUploadValidated ==
  \A w \in Workers :
    \A i \in 1..Len(req[w].files) :
      (i =< Len(input_paths[w]) \/ svc[w] /= NotCalled)
      => /\ HasFilename(req[w].files[i])
         /\ get_file_extension(req[w].files[i]) \in C4_Allowed(req[w].ep, i)

\* C5 (as stated): for every endpoint an exception of the wrapped service
\* call ends the request with status 500, and a 4xx status is produced
\* only for validation problems the endpoint detected itself.
C5_ServiceErrorIs500 ==
  \A w \in Workers :
    /\ ended[w] = "raised" => resp[w].status = 500
    /\ resp[w].status \in 400..499 => ended[w] \in {"invalid", "rejected"}

\* C5 (amended): for every endpoint other than /pdf/unlock and
\* /ocr/languages an exception in the try block ends the request with
\* status 500 and a 4xx status is produced only for validation problems the
\* endpoint detected itself; /pdf/unlock answers 400 for every exception in
\* its try block, /ocr/languages answers 200 with its fallback list.
C5_ServiceErrorIs500Except ==
  \A w \in Workers :
    /\ req[w].ep \notin {"/pdf/unlock", "/ocr/languages"} =>
         /\ ended[w] \in {"raised", "no output"} => resp[w].status = 500
         /\ resp[w].status \in 400..499 => ended[w] \in {"invalid", "rejected"}
    /\ req[w].ep = "/pdf/unlock" =>
         /\ ended[w] \in {"raised", "no output"} => resp[w].status = 400
         /\ ended[w] = "invalid" => resp[w].status = 400
    /\ req[w].ep = "/ocr/languages" =>
         (ended[w] = "raised" => resp[w].status = 200)

\* the service call of an endpoint other than /pdf/unlock raised after the
\* upload was accepted, and the request ended with status 500
C5_Witness ==
  \E w \in Workers :
    /\ pc[w] = "done"
    /\ req[w].ep = "/pdf/edit-batch"
    /\ svc[w] /= NotCalled
    /\ ended[w] = "raised"
    /\ resp[w].status = 500

\* a request whose numeric parameters lie outside the declared ranges
C6_OutOfRange(r) ==
  \/ r.ep = "/pdf/watermark" /\ ~PDFWatermarkRequest(r.p)
  \/ r.ep = "/pdf/page-numbers" /\ ~PageNumberRequest(r.p)
  \/ r.ep = "/image/crop" /\ ~ImageCropRequest(r.p)

\* C6: a watermark, page-numbers or crop request with a numeric parameter
\* outside its declared range never reaches the service and never succeeds.
C6_OutOfRangeRejected ==
  \A w \in Workers :
    C6_OutOfRange(req[w]) => svc[w] = NotCalled /\ resp[w].status /= 200

\* a request that lacks a parameter its mode requires
C7_MissingModeParam(r) ==
  \/ /\ r.ep = "/pdf/split"
     /\ \/ r.p.mode = "range" /\ (IsNone(r.p.start_page) \/ IsNone(r.p.end_page))
        \/ r.p.mode = "extract" /\ IsNone(r.p.pages)
  \/ /\ r.ep = "/image/resize"
     /\ \/ r.p.mode \in {"exact", "fill"} /\ (IsNone(r.p.width) \/ IsNone(r.p.height))
        \/ r.p.mode = "scale" /\ IsNone(r.p.scale)

\* C7: a split or resize request that lacks a parameter its mode requires
\* never ends with a success response.
C7_MissingModeParamIsError ==
  \A w \in Workers :
    C7_MissingModeParam(req[w]) => resp[w].status /= 200

\* C8: whenever a handler that returns a single output file produces its
\* success response, file_url is /downloads/<filename>, the file of that
\* name exists in the download directory at that moment and file_size is
\* its size.
C8_SuccessMeansWritten ==
  [][\A w \in Workers :
       (/\ resp[w].status /= 200
        /\ resp'[w].status = 200
        /\ Returns(req[w].ep) \in {"file", "sized"})
       => /\ resp'[w].file_url = [mount |-> "/downloads", name |-> resp'[w].filename]
          /\ Path("downloads", <<>>, resp'[w].filename) \in DOMAIN download_dir'
          /\ download_dir'[Path("downloads", <<>>, resp'[w].filename)].size
               = resp'[w].file_size]_vars

\* /pdf/from-images answered with success and its output is in place
C8_Witness ==
  \E w \in Workers :
    /\ resp[w].status = 200
    /\ req[w].ep = "/pdf/from-images"
    /\ OutputPath(resp[w].filename) \in DOMAIN download_dir
    /\ download_dir[OutputPath(resp[w].filename)].size = resp[w].file_size

\* C9: a step of a request handler, successful or failing, removes nothing
\* from the download directory; only the periodic sweep does.
C9_HandlersKeepOutputs ==
  [][pc' /= pc => \A x \in DOMAIN download_dir : x \in DOMAIN download_dir']_vars

\* a handler whose service call raised has finished; the partial output it
\* left and the output of an earlier request are still in place
C9_Witness ==
  \E w \in Workers :
    /\ pc[w] = "done"
    /\ ended[w] = "raised"
    /\ Len(out[w]) = 1
    /\ OutputPath(out[w][1]) \in DOMAIN download_dir
    /\ OldOutput \in DOMAIN download_dir

\* C10: a service call never reads a scratch file another request wrote,
\* never finds its own scratch file missing, and never overwrites or
\* removes the scratch file of another request.
C10_ScratchFilesPrivate ==
  \A w \in Workers :
    ~job[w].foreign /\ ~job[w].lost /\ ~job[w].clobbered

\* the converter C11 names for a mode and a recommendation
C11_Converter(mode, recommendation) ==
  CASE mode \in {"hybrid", "image", "ocr", "text"} -> mode
    [] mode = "auto" ->
         IF recommendation \in {"text", "ocr", "hybrid"} THEN recommendation
         ELSE "image"
    [] OTHER -> "hybrid"

\* C11: pdf_to_word selects one converter as a function of mode (hybrid,
\* image, ocr, text select their converter; auto selects the converter of
\* the recommendation of analyze_pdf_type, image for any recommendation
\* other than text, ocr, hybrid; any other mode selects hybrid), and the
\* dispatcher calls analyze_pdf_type only when mode is 'auto'.
C11_DispatchByMode ==
  fn.op = "pdf_to_word" =>
    /\ fn.result.selected =
         C11_Converter(fn.args.mode,
                       analyze_pdf_type(fn.args.T, fn.args.I, fn.args.P,
                                        fn.args.failed).recommendation)
    /\ fn.args.mode /= "auto" =>
         fn.result.selected = C11_Converter(fn.args.mode, "")
    /\ fn.result.analysed = (IF fn.args.mode = "auto" THEN 1 ELSE 0)

\* pdf_to_word was called with an unknown mode and selected hybrid
C11_Witness ==
  /\ fn.op = "pdf_to_word"
  /\ fn.args.mode = "fast"
  /\ fn.result.selected = "hybrid"
  /\ fn.result.analysed = 0

\* C12: with mode 'ocr' the text of the document comes from OCR of the
\* pages, for every PDF, also one with extractable text.
C12_OcrModeRunsOcr ==
  (fn.op = "pdf_to_word" /\ fn.args.mode = "ocr" /\ fn.args.P >= 1)
  => fn.result.text_source = "ocr"

\* the recommendation C13 names for T, I and P
C13_Recommendation(T, I, P) ==
  IF T < 100 /\ I > 0 THEN "ocr"
  ELSE IF T > 100 /\ I >= P THEN "hybrid"
  ELSE IF T > 100 /\ I < P THEN "text"
  ELSE "image"

C14_Processed(doc, page_nums) ==
  IF IsNone(page_nums) \/ page_nums[1] = <<>>
  THEN [i \in 1..Len(doc) |-> i - 1]
  ELSE page_nums[1]

\* the occurrences the text search finds on the processed pages, in order
RECURSIVE C14_Found(_, _, _)
C14_Found(doc, pages, k) ==
  IF k > Len(pages) THEN <<>>
  ELSE LET hits == search_for(doc[pages[k] + 1])
       IN [i \in 1..Len(hits) |-> [page |-> pages[k], rect |-> hits[i]]]
          \o C14_Found(doc, pages, k + 1)

\* C14: replace_text returns the number of occurrences the text search
\* found on the processed pages; for each occurrence, in search order, it
\* first redacts the occurrence's box and then inserts new_text at the
\* box's (x0, y1); without an occurrence the document is unchanged and the
\* result is 0.
C14_ReplaceCountsAndOrder ==
  fn.op = "replace_text" =>
    LET found == C14_Found(fn.args.doc,
                           C14_Processed(fn.args.doc, fn.args.page_nums), 1)
        ops == fn.result.ops
    IN /\ fn.result.count = Len(found)
       /\ Len(ops) = 2 * Len(found)
       /\ \A k \in 1..Len(found) :
            /\ ops[2 * k - 1] = [kind |-> "redact", page |-> found[k].page,
                                 rect |-> found[k].rect]
            /\ ops[2 * k].kind = "insert"
            /\ ops[2 * k].page = found[k].page
            /\ ops[2 * k].text = "new_text"
            /\ ops[2 * k].point = <<found[k].rect.x0, found[k].rect.y1>>
       /\ Len(found) = 0 => fn.result.doc = fn.args.doc

\* replace_text found two occurrences on a page and returned 2
C14_Witness ==
  /\ fn.op = "replace_text"
  /\ Len(fn.args.doc) = 1
  /\ Len(search_for(fn.args.doc[1])) = 2
  /\ fn.result.count = 2
  /\ Len(fn.result.ops) = 4

\* C15: each replacement is inserted with the font name, font size and
\* colour of the span in which its occurrence of old_text lies.
C15_FormatOfOccurrence ==
  fn.op = "replace_text" =>
    \A k \in 1..fn.result.count :
      LET ins == fn.result.ops[2 * k]
          rect == fn.result.ops[2 * k - 1].rect
          span == fn.args.doc[ins.page + 1][rect.y0][rect.x0]
      IN /\ ins.fontname = span.font
         /\ ins.fontsize = span.size
         /\ ins.color = ToRGB(span.color)

\* C16: the output of merge_pdfs holds every page of every input exactly
\* once, the pages of an earlier input before those of a later one and the
\* pages of one input in their order; its page count is the sum of the
\* inputs' page counts.
C16_MergeConcatenates ==
  fn.op = "merge_pdfs" =>
    LET readers == fn.args.readers
        pages == fn.result.pages
    IN /\ \A d \in 1..Len(readers) : \A i \in 1..Len(readers[d]) :
            Cardinality({k \in 1..Len(pages) : pages[k] = readers[d][i]}) = 1
       /\ \A k \in 1..Len(pages) :
            \E d \in 1..Len(readers) : \E i \in 1..Len(readers[d]) :
              pages[k] = readers[d][i]
       /\ \A k, l \in 1..Len(pages) :
            k < l => \/ pages[k].src < pages[l].src
                     \/ pages[k].src = pages[l].src /\ pages[k].no < pages[l].no

\* two PDFs with pages were merged
C16_Witness ==
  /\ fn.op = "merge_pdfs"
  /\ Len(fn.args.readers) = 2
  /\ Len(fn.args.readers[1]) = 2
  /\ Len(fn.args.readers[2]) = 1
  /\ Len(fn.result.pages) = 3

\* C17: split_pdf in range mode with start_page and end_page given writes
\* exactly one file, holding the pages start_page..min(end_page, N) of the
\* input in order and no other page, for every integer start_page and
\* end_page.
C17_RangeIsExact ==
  fn.op = "split_pdf" =>
    LET N == fn.args.total_pages
        first == IF fn.args.start_page < 1 THEN 1 ELSE fn.args.start_page
        last == IF fn.args.end_page < N THEN fn.args.end_page ELSE N
    IN /\ ~fn.result.raises
       /\ fn.result.files = 1
       /\ fn.result.pages =
            [k \in 1..(IF last < first THEN 0 ELSE last - first + 1) |-> first + k - 1]

\* C18: the output of rotate_pdf has the pages of the input in the same
\* order; a page is turned by the angle exactly if pages is None or holds
\* its 1-indexed number, every other page keeps its rotation.
C18_RotateKeepsPages ==
  fn.op = "rotate_pdf" =>
    LET reader == fn.args.reader
        pages == fn.result.pages
    IN /\ Len(pages) = Len(reader)
       /\ \A i \in 1..Len(reader) :
            /\ pages[i].src = reader[i].src
            /\ pages[i].no = reader[i].no
            /\ (fn.args.pages = None \/ i \in fn.args.pages[1])
                 => pages[i].rotation = (reader[i].rotation + fn.args.angle) % 360
            /\ ~(fn.args.pages = None \/ i \in fn.args.pages[1])
                 => pages[i].rotation = reader[i].rotation

\* page 2 of a three-page PDF was turned, pages 1 and 3 were not
C18_Witness ==
  /\ fn.op = "rotate_pdf"
  /\ Len(fn.args.reader) = 3
  /\ fn.args.pages = Some({2})
  /\ fn.result.pages[2].rotation /= fn.args.reader[2].rotation
  /\ fn.result.pages[1].rotation = fn.args.reader[1].rotation
  /\ fn.result.pages[3].rotation = fn.args.reader[3].rotation

\* C19: for a PDF with text, the analysis finds it complex (many images)
\* exactly when the analysed pages hold at least one image per analysed
\* page on average, for any page count.
C19_ManyImagesPerAnalysedPage ==
  (fn.op = "analyze_pdf_type" /\ ~fn.args.failed /\ fn.args.T > 100) =>
    (fn.result.is_complex <=> fn.args.I >= AnalysedPages(fn.args.P))

C21_FlagsConsistent ==
  fn.op = "analyze_pdf_type" =>
    LET r == fn.result
    IN /\ ~(r.is_scanned /\ r.has_text)
       /\ r.is_complex => r.has_text
       /\ r.is_scanned <=> r.recommendation = "ocr"
       /\ (r.is_complex /\ ~r.is_scanned) => r.recommendation = "hybrid"

\* the page numbers a call is to process: the listed ones, all when
\* page_nums is None
C22_Listed(doc, page_nums) ==
  IF IsNone(page_nums) THEN {i - 1 : i \in 1..Len(doc)}
  ELSE Range(page_nums[1])

\* the number of occurrences on the pages numbered in S
RECURSIVE C22_Matches(_, _)
C22_Matches(doc, S) ==
  IF S = {} THEN 0
  ELSE LET p == CHOOSE q \in S : TRUE
       IN Len(search_for(doc[p + 1])) + C22_Matches(doc, S \ {p})

\* C22: replace_text and redact_text called with a page list, also an
\* empty one, search and modify only the listed pages and leave every
\* other page as it was; only with page_nums None are all pages
\* processed.  redact_text applies redactions on a page exactly when the
\* page has a match, and returns the total number of matches.
C22_OnlyListedPages ==
  fn.op \in {"replace_text", "redact_text"} =>
    LET doc == fn.args.doc
        listed == C22_Listed(doc, fn.args.page_nums)
        ops == fn.result.ops
    IN /\ \A i \in 1..Len(doc) :
            (i - 1) \notin listed => fn.result.doc[i] = doc[i]
       /\ \A k \in 1..Len(ops) : ops[k].page \in listed
       /\ fn.op = "redact_text" =>
            /\ \A p \in listed :
                 (\E k \in 1..Len(ops) :
                    ops[k] = [kind |-> "apply", page |-> p])
                 <=> search_for(doc[p + 1]) /= <<>>
            /\ fn.result.count = C22_Matches(doc, listed)

\* C23: in every use of PDFEditor as a context manager the document is
\* opened once and closed exactly once when the block is left, whether its
\* body finished or raised; no editor call (edit, extract, save) follows
\* the close; in the editing endpoints save(output_path) comes after all
\* edits and before close; and when the body raises before save (as with
\* 'Invalid annotation parameters' in /pdf/add-annotation) no output file
\* is written.
C23_EditorLifecycle ==
  fn.op = "PDFEditor" =>
    LET ev == fn.events
        saves == {i \in 1..Len(ev) : ev[i] = "save"}
    IN /\ fn.pc /= "not entered" =>
            /\ fn.opened = 1
            /\ {i \in 1..Len(ev) : ev[i] = "open"} = {1}
       /\ fn.closed = (IF fn.pc = "left" THEN 1 ELSE 0)
       /\ fn.pc = "left" => fn.doc = "closed" /\ ev[Len(ev)] = "close"
       /\ \A i \in 1..Len(ev) : ev[i] = "close" => i = Len(ev)
       /\ \A i \in saves : \A j \in 1..Len(ev) : ev[j] = "edit" => j < i
       /\ (EditorSaves(fn.ep) /\ fn.pc = "left" /\ ~fn.raised) =>
            Cardinality(saves) = 1 /\ fn.todo = 0
       /\ saves = {} => fn.output_path \notin DOMAIN download_dir

\* /pdf/add-annotation with invalid parameters: the block was left by the
\* HTTPException, the document is closed and nothing was saved
C23_Witness ==
  /\ fn.op = "PDFEditor"
  /\ fn.ep = "/pdf/add-annotation"
  /\ fn.invalid
  /\ fn.pc = "left"
  /\ fn.raised
  /\ fn.status = 400
  /\ fn.events = <<"open", "close">>
  /\ fn.output_path \notin DOMAIN download_dir

\* the temp_bright_* and temp_contrast_* files of worker w in the upload directory
C24_TempFiles(w) ==
  {path \in DOMAIN upload_dir :
     /\ path.name.base \in {"temp_bright", "temp_contrast"}
     /\ upload_dir[path].owner = w}

\* C24: /image/adjust leaves no intermediate file behind: whichever of
\* brightness, contrast and saturation are given, every temp_bright_* or
\* temp_contrast_* file the request created in the upload directory is
\* gone when the request has finished, after a success as well as after an
\* adjustment step that raised; and the uploaded input file is never put
\* among the paths that are deleted before the last step has read it.
C24_NoTempFileLeft ==
  \A w \in Workers :
    req[w].ep = "/image/adjust" =>
      /\ pc[w] = "done" => C24_TempFiles(w) = {}
      /\ (job[w].conv = "adjust" /\ input_paths[w] /= <<>>) =>
           input_paths[w][1] \notin Range(job[w].temp_paths)

\* the files of dir as cleanup_old_files is to leave them after looking at
\* path: without path when it is more than 3600 seconds older than the
\* start of the sweep and its removal did not fail
C25_Swept(dir, path, failed) ==
  IF /\ path \in DOMAIN dir
     /\ sweep.current_time - dir[path].mtime > 3600
     /\ path \notin failed
  THEN Del(dir, path) ELSE dir

\* C25: cleanup_old_files removes a file under the upload or download
\* directory exactly when its modification time lies more than 3600
\* seconds before the start of the sweep; younger files stay, a failure on
\* one file does not stop the sweep of the others, the task does not raise
\* and it returns success.
C25_SweepRemovesOldFiles ==
  [][sweep.state = "running" =>
       /\ sweep'.state \in {"running", "done"}
       /\ sweep'.state = "done" =>
            /\ sweep.todo = {} /\ sweep'.success
            /\ upload_dir' = upload_dir /\ download_dir' = download_dir
       /\ sweep'.todo /= sweep.todo =>
            \E path \in sweep.todo :
              /\ sweep'.todo = sweep.todo \ {path}
              /\ sweep'.state = "running"
              /\ upload_dir' = C25_Swept(upload_dir, path, sweep'.failed)
              /\ download_dir' = C25_Swept(download_dir, path, sweep'.failed)
    ]_vars

\* a sweep started after 3601 seconds has returned success: it removed the
\* old output, and the removal of an old upload failed without ending it
C25_Witness ==
  /\ sweep.state = "done"
  /\ sweep.success
  /\ sweep.current_time = TickSeconds
  /\ OldOutput \notin DOMAIN download_dir
  /\ \E path \in sweep.failed \cap DOMAIN upload_dir :
       sweep.current_time - upload_dir[path].mtime > max_age

\* C26: a background conversion task does not propagate an exception: it
\* returns success=true after its service call returned, or success=false
\* with the error text when a step raised; either way cleanup_file has
\* been called exactly once for every input path before the return; and
\* the reported progress is 10, then 90, the 90 only after the service
\* call succeeded.
C26_TaskOutcome ==
  fn.op = "task" =>
    /\ fn.progress \in {<<>>, <<10>>, <<10, 90>>}
    /\ fn.progress = <<10, 90>> => fn.service = "returned"
    /\ \A p \in Range(fn.input_paths) :
         fn.cleaned[p] = (IF fn.pc \in {"return", "return error", "returned"}
                          THEN 1 ELSE 0)
    /\ fn.pc = "returned" =>
         /\ ~IsNone(fn.result)
         /\ fn.result[1].success =>
              /\ fn.service = "returned"
              /\ fn.progress = <<10, 90>>
              /\ fn.error = ""
         /\ ~fn.result[1].success =>
              /\ fn.error /= ""
              /\ fn.result[1].error = fn.error

\* merge_pdfs_task whose merge raised: it returned success=false with the
\* error, reported only progress 10 and cleaned both inputs once
C26_Witness ==
  /\ fn.op = "task"
  /\ fn.name = "merge_pdfs_task"
  /\ Len(fn.input_paths) = 2
  /\ fn.pc = "returned"
  /\ fn.service = "raised"
  /\ fn.progress = <<10>>
  /\ ~fn.result[1].success
  /\ fn.result[1].error = "pdf_ops.merge_pdfs"
  /\ \A p \in Range(fn.input_paths) : fn.cleaned[p] = 1 /\ p \notin DOMAIN upload_dir

====
